---- MODULE Spec2Model ----
(***************************************************************************)
(* Fix-and-verify orchestration of the bug-fix verification agent:        *)
(*   runFixAndVerifyPipeline  (lib/fix-and-verify-pipeline)                *)
(*   applyFix / rollbackFix   (lib/bug-fixer)                              *)
(*   runVerificationPipeline  (lib/verification-pipeline)                  *)
(*   runTests / startDevServer (lib/test-runner)                           *)
(*                                                                         *)
(* The code is single threaded and asynchronous.  One action of the model *)
(* is one resumption of the pipeline: the outcome of the call it awaits   *)
(* (fix service, test service, readiness poll, test process, visual       *)
(* service) together with all synchronous code up to the next await.      *)
(***************************************************************************)
EXTENDS Integers, Sequences, FiniteSets, TLC

\* ------------------------------------------------------------------ bounds

\* Largest config.maxRetries explored.
MaxRetriesCfg == 2
\* Longest changes array of a FixResult in the apply/rollback specification.
MaxChanges == 2

\* ------------------------------------------------------------- data model

Paths == {"p1", "p2"}
\* File contents; "" is the empty file, "o" an original content, "a" and "b"
\* contents a fix writes.
Contents == {"", "o", "a", "b"}
OriginalContents == {"", "o"}
\* A path either holds a content or does not exist.
Absent == "<absent>"
FileStates == Contents \cup {Absent}
Workspaces == [Paths -> FileStates]

\* undefined and null of a string-valued field.
Undefined == "<undefined>"
\* An optional object: <<>> is null/undefined, <<x>> holds x.
None == <<>>
Some(x) == <<x>>

\* FileChange: filePath and modifiedContent are what applyFix reads.
FileChange == [filePath : Paths, modifiedContent : Contents]

RECURSIVE SeqsUpTo(_, _)
SeqsUpTo(S, n) ==
  IF n = 0 THEN {<<>>}
  ELSE LET shorter == SeqsUpTo(S, n - 1)
       IN  shorter \cup {Append(s, x) : s \in {t \in shorter : Len(t) = n - 1}, x \in S}

\* ------------------------------------------------------ applyFix, rollbackFix

FileExists(f, p) == f[p] # Absent

\* applyFix, "Back up original content": the entry pushed for one change.
BackupEntry(f, change) ==
  [filePath |-> change.filePath,
   originalContent |-> IF FileExists(f, change.filePath)
                       THEN f[change.filePath] ELSE ""]

WriteFile(f, p, content) == [f EXCEPT ![p] = content]
Unlink(f, p) == [f EXCEPT ![p] = Absent]

\* The loop of applyFix after its first n iterations: the workspace and the
\* backup.files built so far.
RECURSIVE ApplyPrefix(_, _, _)
ApplyPrefix(f, changes, n) ==
  IF n = 0 THEN [fs |-> f, files |-> <<>>]
  ELSE LET before == ApplyPrefix(f, changes, n - 1)
           change == changes[n]
       IN  [fs    |-> WriteFile(before.fs, change.filePath, change.modifiedContent),
            files |-> Append(before.files, BackupEntry(before.fs, change))]

\* applyFix returning normally: the workspace it leaves and the FixBackup.
ApplyFix(f, fixResult) ==
  ApplyPrefix(f, fixResult.changes, Len(fixResult.changes))

\* applyFix throwing in iteration k (readFileSync, mkdirSync or writeFileSync
\* fails): the first k-1 changes are written, the local backup is lost with
\* the stack frame.
ApplyFixThrows(f, fixResult, k) == ApplyPrefix(f, fixResult.changes, k - 1).fs

\* Mutant: the sentinel test reads the file on disk instead of the entry.
RestoreEntry_TestsDisk(f, file) ==
  IF FileExists(f, file.filePath) /\ f[file.filePath] = ""
  THEN Unlink(f, file.filePath)
  ELSE WriteFile(f, file.filePath, file.originalContent)

\* One iteration of rollbackFix.
RestoreEntry(f, file) ==
  IF file.originalContent = ""
  THEN (IF FileExists(f, file.filePath) THEN Unlink(f, file.filePath) ELSE f)
  ELSE WriteFile(f, file.filePath, file.originalContent)

\* The loop of rollbackFix after its first n iterations.
RECURSIVE RollbackPrefix(_, _, _)
RollbackPrefix(f, files, n) ==
  IF n = 0 THEN f
  ELSE RestoreEntry(RollbackPrefix(f, files, n - 1), files[n])

RollbackFix(f, files) == RollbackPrefix(f, files, Len(files))

\* ------------------------------------------------------------------ state

VARIABLES
  caller,           \* the command running: fixAndVerifyCommand or verifyFixCommand
  config,           \* AgentConfig: maxRetries, enableVisualAnalysis
  input,            \* FixAndVerifyInput / VerificationInput: startServer
  fs0,              \* the workspace before the pipeline started
  fs,               \* the workspace files
  pc,               \* the call the pipeline is awaiting
  attempt,          \* loop counter of runFixAndVerifyPipeline
  attempts,         \* FixAttempt[]
  previousAttempt,  \* { fix, verificationError } | undefined
  fix,              \* the FixResult of the current iteration
  backup,           \* backup.files of the current iteration
  result,           \* the FixAndVerifyResult (VerificationResult for verifyFix) returned
  retryCount,       \* runVerificationPipeline: retryCount
  testGen,          \* runVerificationPipeline: testGen
  testResult,       \* runVerificationPipeline: testResult
  serverProcess,    \* runTests: serverProcess
  liveServers,      \* dev-server processes spawned and not killed
  fixCalls,         \* calls of generateFix made so far (history)
  rollbackThrew,    \* rollbackFix threw while restoring an entry (history)
  args,             \* the arguments of the function called on its own
  frame,            \* its local variables
  ret,              \* what it returned or threw, or the exit code
  testRuns,         \* test executions started by the running runVerificationPipeline (history)
  ev                \* the last event

vars == <<caller, config, input, fs0, fs, pc, attempt, attempts, previousAttempt, fix,
          backup, result, retryCount, testGen, testResult, serverProcess,
          liveServers, fixCalls, rollbackThrew, args, frame, ret, testRuns, ev>>

\* ------------------------------------------------------------ environment

\* FixResults the fix-proposal service can make parseFixResponse return.
ServiceFixes ==
  { [changes |-> c, approach |-> "service"] :
      c \in { <<>>,
              <<[filePath |-> "p1", modifiedContent |-> "a"]>>,
              <<[filePath |-> "p1", modifiedContent |-> "a"],
                [filePath |-> "p2", modifiedContent |-> "a"]>>,
              <<[filePath |-> "p1", modifiedContent |-> "a"],
                [filePath |-> "p1", modifiedContent |-> "b"]>> } }

\* Outcomes of one executePlaywright call followed by collectFiles.
TestOutcomes ==
  { [passed |-> TRUE,  errorMessage |-> Undefined, stderr |-> "", screenshots |-> 1],
    [passed |-> FALSE, errorMessage |-> "element not found", stderr |-> "", screenshots |-> 0] }

GenerationErrorMsg == "Fix response missing changes array"
ApplyErrorMsg == "EACCES"
TestGenErrorMsg == "Test generation failed: service error"
ServerTimeoutMsg == "Dev server did not become ready"

\* ------------------------------------------------- runFixAndVerifyPipeline

MaxAttempts == config.maxRetries

\* Mutant: the loop stops one attempt early.
LoopTest_OneShort(a, maxAttempts) == a < maxAttempts

\* for (let attempt = 1; attempt <= maxAttempts; attempt++)
LoopTest(a, maxAttempts) == a <= maxAttempts

\* Mutant: a generation error is recorded as a failed verification.
GenErrorAttempt_Verified(a, msg) ==
  [attemptNumber |-> a,
   fix |-> [changes |-> <<>>, approach |-> "Failed"],
   verification |-> Some([overallPassed |-> FALSE]),
   error |-> <<msg>>]

GenErrorAttempt(a, msg) ==
  [attemptNumber |-> a,
   fix |-> [changes |-> <<>>, approach |-> "Failed"],
   verification |-> None,
   error |-> <<msg>>]

\* Mutant: the apply error is recorded as the bare message.
ApplyErrorAttempt_Bare(a, f, msg) ==
  [attemptNumber |-> a, fix |-> f, verification |-> None, error |-> <<msg>>]

ApplyErrorAttempt(a, f, msg) ==
  [attemptNumber |-> a, fix |-> f, verification |-> None,
   error |-> <<"Apply failed", msg>>]

\* Mutant: the record of Phase 2's catch is pushed in Phase 3's catch.
VerifyErrorAttempt_AsApply(a, f, msg) ==
  [attemptNumber |-> a, fix |-> f, verification |-> None,
   error |-> <<"Apply failed", msg>>]

VerifyErrorAttempt(a, f, msg) ==
  [attemptNumber |-> a, fix |-> f, verification |-> None,
   error |-> <<"Verification error", msg>>]

\* Mutant: the record of a verified attempt counts from zero.
VerifiedAttempt_ZeroBased(a, f, v) ==
  [attemptNumber |-> a - 1, fix |-> f, verification |-> Some(v), error |-> None]

VerifiedAttempt(a, f, v) ==
  [attemptNumber |-> a, fix |-> f, verification |-> Some(v), error |-> None]

FailureResult ==
  [succeeded |-> FALSE, finalFix |-> None, finalVerification |-> None]

\* Mutant: the success return drops the verification.
SuccessResult_NoVerification(f, v) ==
  [succeeded |-> TRUE, finalFix |-> Some(f), finalVerification |-> None]

SuccessResult(f, v) ==
  [succeeded |-> TRUE, finalFix |-> Some(f), finalVerification |-> Some(v)]

\* Mutant: the early return of Phase 4 is skipped, so a passing attempt is
\* rolled back and the loop goes on.
ReturnsSuccess_NoEarlyReturn(v) == FALSE

\* if (verification.overallPassed) return { succeeded: true, ... }
ReturnsSuccess(v) == v.overallPassed

\* Mutant: the failure text is the test error message alone.
VerificationErrorText_MessageOnly(v) ==
  IF v.testResult.errorMessage = Undefined
  THEN <<"Verification tests failed but no specific error message was captured.">>
  ELSE <<v.testResult.errorMessage>>

\* "Prepare error context for self-healing": the parts kept by filter(Boolean),
\* in order, or the fixed fallback text.
VerificationErrorText(v) ==
  LET parts == << IF v.testResult.errorMessage = Undefined THEN "" ELSE v.testResult.errorMessage,
                  v.testResult.stderr,
                  IF v.visualReport = None THEN "" ELSE v.visualReport[1].overallAssessment >>
      kept == SelectSeq(parts, LAMBDA x : x # "")
  IN  IF kept = <<>> THEN <<"Verification tests failed but no specific error message was captured.">>
      ELSE kept

\* Mutant: a visual report that did not pass vetoes the verdict.
VerificationResult_VisualVeto(tg, tr, vr, rc) ==
  [testGeneration |-> tg, testResult |-> tr, visualReport |-> vr,
   retryCount |-> rc,
   overallPassed |-> tr.passed /\ (vr = None \/ vr[1].passed)]

\* Mutant: retryCount reports test executions instead of retries.
VerificationResult_CountsRuns(tg, tr, vr, rc) ==
  [testGeneration |-> tg, testResult |-> tr, visualReport |-> vr,
   retryCount |-> rc + 1, overallPassed |-> tr.passed]

\* const overallPassed = testResult.passed; return { ... }
VerificationResult(tg, tr, vr, rc) ==
  [testGeneration |-> tg, testResult |-> tr, visualReport |-> vr,
   retryCount |-> rc, overallPassed |-> tr.passed]

\* "continue" or the end of the loop body: attempt++ and the loop test, then
\* the next generateFix call or "All attempts exhausted".
NextIteration(newAttempts, newPrev, newFs) ==
  /\ attempts' = newAttempts
  /\ previousAttempt' = newPrev
  /\ fs' = newFs
  /\ attempt' = attempt + 1
  /\ fix' = None
  /\ backup' = <<>>
  /\ IF LoopTest(attempt + 1, MaxAttempts)
     THEN pc' = "generateFix" /\ result' = None /\ fixCalls' = fixCalls + 1
     ELSE pc' = "returned" /\ result' = Some(FailureResult) /\ fixCalls' = fixCalls
  /\ UNCHANGED <<rollbackThrew, args, frame, ret>>

\* Mutant: the error of rollbackFix is swallowed and the loop goes on.
RollbackThrows_Swallowed(newAttempts, k) ==
  /\ rollbackThrew' = TRUE
  /\ UNCHANGED <<args, frame, ret>>
  /\ fs' = RollbackPrefix(fs, backup, k - 1)
  /\ attempts' = newAttempts
  /\ attempt' = attempt + 1
  /\ fix' = None
  /\ backup' = <<>>
  /\ previousAttempt' = previousAttempt
  /\ IF LoopTest(attempt + 1, MaxAttempts)
     THEN pc' = "generateFix" /\ result' = None /\ fixCalls' = fixCalls + 1
     ELSE pc' = "returned" /\ result' = Some(FailureResult) /\ fixCalls' = fixCalls

\* rollbackFix throwing in iteration k: neither call of it is inside a try, so
\* the error leaves runFixAndVerifyPipeline.
RollbackThrows(newAttempts, k) ==
  /\ pc' = "threw"
  /\ fs' = RollbackPrefix(fs, backup, k - 1)
  /\ attempts' = newAttempts
  /\ UNCHANGED <<attempt, previousAttempt, fix, backup, result, fixCalls>>
  /\ rollbackThrew' = TRUE
  /\ UNCHANGED <<args, frame, ret>>

\* catch (error) of Phase 3: rollbackFix, attempts.push, previousAttempt, continue.
CatchVerificationError(msg) ==
  \/ NextIteration(Append(attempts, VerifyErrorAttempt(attempt, fix[1], msg)),
                   Some([fix |-> fix[1], verificationError |-> <<msg>>]),
                   RollbackFix(fs, backup))
  \/ \E k \in 1..Len(backup) : RollbackThrows(attempts, k)

\* After runVerificationPipeline returned v: attempts.push, Phase 4, rollback.
OnVerificationResult(v) ==
  LET recorded == Append(attempts, VerifiedAttempt(attempt, fix[1], v))
  IN  IF ReturnsSuccess(v)
      THEN /\ pc' = "returned"
           /\ result' = Some(SuccessResult(fix[1], v))
           /\ attempts' = recorded
           /\ fix' = None
           /\ backup' = <<>>
           /\ UNCHANGED <<fs, attempt, previousAttempt, fixCalls, rollbackThrew, args, frame, ret>>
      ELSE \/ NextIteration(recorded,
                            Some([fix |-> fix[1],
                                  verificationError |-> VerificationErrorText(v)]),
                            RollbackFix(fs, backup))
           \/ \E k \in 1..Len(backup) : RollbackThrows(recorded, k)

\* verifyFixCommand: showResults(result), or catch and showErrorMessage.
ShowResults(v) ==
  /\ pc' = "returned"
  /\ result' = Some(v)
  /\ UNCHANGED <<fs, attempt, attempts, previousAttempt, fix, backup,
                 fixCalls, rollbackThrew, args, frame, ret>>

ShowError(msg) ==
  /\ pc' = "returned"
  /\ result' = None
  /\ UNCHANGED <<fs, attempt, attempts, previousAttempt, fix, backup,
                 fixCalls, rollbackThrew, args, frame, ret>>

\* runVerificationPipeline returns to, or throws into, its caller.
VerificationReturns(v) ==
  IF caller = "fixAndVerify" THEN OnVerificationResult(v) ELSE ShowResults(v)

VerificationThrows(msg) ==
  IF caller = "fixAndVerify" THEN CatchVerificationError(msg) ELSE ShowError(msg)

\* --------------------------------------------------- runVerificationPipeline

\* The locals of runVerificationPipeline and runTests outside a call.
VerificationIdle ==
  /\ retryCount' = 0
  /\ testGen' = None
  /\ testResult' = None
  /\ serverProcess' = Undefined
  /\ testRuns' = 0

\* Mutant: the loop gives up at the first failure.
RetriesExhausted_Always(rc, maxRetries) == TRUE

\* Mutant: off by one, the loop allows one more execution.
RetriesExhausted_OffByOne(rc, maxRetries) == rc > maxRetries

\* if (retryCount >= config.maxRetries) break
RetriesExhausted(rc, maxRetries) == rc >= maxRetries

\* testResult.errorMessage || testResult.stderr, the error output handed to
\* regenerateTest.
ErrorOutput(tr) ==
  IF tr.errorMessage # Undefined /\ tr.errorMessage # "" THEN tr.errorMessage ELSE tr.stderr

\* finally { if (serverProcess?.pid) killProcessTree(serverProcess.pid) }
FinallyKills(sp) == sp # Undefined

\* runTests up to its first await: startDevServer spawns the server and waits
\* for it, or executePlaywright is started at once.
CallRunTests ==
  IF input.startServer
  THEN /\ pc' = "waitForServer"
       /\ liveServers' = liveServers + 1
       /\ serverProcess' = Undefined
       /\ testRuns' = testRuns
  ELSE /\ pc' = "executePlaywright"
       /\ testRuns' = testRuns + 1
       /\ UNCHANGED <<liveServers, serverProcess>>

\* Phase 3 and the return: analyzeScreenshots is awaited, or the result goes
\* back to the orchestrator at once.
AfterTestLoop(tg, tr, rc) ==
  IF config.enableVisualAnalysis /\ tr.screenshots > 0
  THEN /\ pc' = "analyzeScreenshots"
       /\ testGen' = tg /\ testResult' = Some(tr) /\ retryCount' = rc
       /\ serverProcess' = Undefined
       /\ UNCHANGED <<fs, attempt, attempts, previousAttempt, fix, backup,
                      result, fixCalls, rollbackThrew, args, frame, ret, testRuns>>
  ELSE /\ VerificationReturns(VerificationResult(tg, tr, None, rc))
       /\ VerificationIdle

\* ----------------------------------------------------------------- actions

\* getConfig: maxRetries: config.get<number>('maxRetries') || 3.  Every
\* non-zero setting is passed on as it is, a negative one included; 0 and an
\* unset setting give 3.
RetryConfigs == {-1} \cup (1..MaxRetriesCfg)

Init ==
  /\ caller \in {"fixAndVerify", "verifyFix"}
  /\ config \in [maxRetries : RetryConfigs, enableVisualAnalysis : BOOLEAN]
  /\ input \in [startServer : BOOLEAN]
  /\ fs0 \in [Paths -> OriginalContents \cup {Absent}]
  /\ fs = fs0
  /\ pc = IF caller = "fixAndVerify" THEN "analyzeRelevantFiles" ELSE "generateTest"
  /\ attempt = 0
  /\ attempts = <<>>
  /\ previousAttempt = None
  /\ fix = None
  /\ backup = <<>>
  /\ result = None
  /\ retryCount = 0
  /\ testGen = None
  /\ testResult = None
  /\ serverProcess = Undefined
  /\ liveServers = 0
  /\ fixCalls = 0
  /\ rollbackThrew = FALSE
  /\ args = None
  /\ frame = None
  /\ ret = None
  /\ testRuns = 0
  /\ ev = "called"

\* Phase 0 and 0.5 are done; the loop is entered with attempt = 1.
Start ==
  /\ pc = "analyzeRelevantFiles"
  /\ ev' = "started"
  /\ attempt' = 1
  /\ IF LoopTest(1, MaxAttempts)
     THEN pc' = "generateFix" /\ result' = None /\ fixCalls' = fixCalls + 1
     ELSE pc' = "returned" /\ result' = Some(FailureResult) /\ fixCalls' = fixCalls
  /\ UNCHANGED <<rollbackThrew, args, frame, ret>>
  /\ UNCHANGED <<caller, config, input, fs0, fs, attempts, previousAttempt, fix, backup,
                 retryCount, testGen, testResult, serverProcess, liveServers,
                 testRuns>>

\* Phase 1, catch: generateFix threw.
GenerateFixThrows ==
  /\ pc = "generateFix"
  /\ ev' = "generateFix threw"
  /\ NextIteration(Append(attempts, GenErrorAttempt(attempt, GenerationErrorMsg)),
                   previousAttempt, fs)
  /\ UNCHANGED <<caller, config, input, fs0, retryCount, testGen, testResult,
                 serverProcess, liveServers, testRuns>>

\* Phase 1 and 2: generateFix returned f, applyFix wrote it, and
\* runVerificationPipeline runs up to its await of generateTest.
FixApplied(f) ==
  /\ pc = "generateFix"
  /\ ev' = "applied"
  /\ LET applied == ApplyFix(fs, f)
     IN  /\ fs' = applied.fs
         /\ backup' = applied.files
  /\ fix' = Some(f)
  /\ pc' = "generateTest"
  /\ retryCount' = 0
  /\ testRuns' = 0
  /\ UNCHANGED <<caller, config, input, fs0, attempt, attempts, previousAttempt, result,
                 testGen, testResult, serverProcess, liveServers,
                 fixCalls, rollbackThrew, args, frame, ret>>

\* Phase 1 and 2: generateFix returned f and applyFix threw at its k-th change.
ApplyThrows(f, k) ==
  /\ pc = "generateFix"
  /\ k \in 1..Len(f.changes)
  /\ ev' = "applyFix threw"
  /\ NextIteration(Append(attempts, ApplyErrorAttempt(attempt, f, ApplyErrorMsg)),
                   previousAttempt, ApplyFixThrows(fs, f, k))
  /\ UNCHANGED <<caller, config, input, fs0, retryCount, testGen, testResult,
                 serverProcess, liveServers, testRuns>>

\* Phase 1 of runVerificationPipeline: generateTest threw, rethrown.
GenerateTestThrows ==
  /\ pc = "generateTest"
  /\ ev' = "generateTest threw"
  /\ VerificationThrows(TestGenErrorMsg)
  /\ VerificationIdle
  /\ UNCHANGED <<caller, config, input, fs0, liveServers>>

\* generateTest returned; the loop is entered and runTests called.
GenerateTestReturns ==
  /\ pc = "generateTest"
  /\ ev' = "test generated"
  /\ testGen' = Some([version |-> 1, errorContext |-> None])
  /\ CallRunTests
  /\ UNCHANGED <<caller, config, input, fs0, fs, attempt, attempts, previousAttempt, fix,
                 backup, result, retryCount, testResult, fixCalls, rollbackThrew, args, frame, ret>>

\* waitForServer returned: startDevServer returns the process to runTests,
\* which starts executePlaywright.
ServerReady ==
  /\ pc = "waitForServer"
  /\ ev' = "server ready"
  /\ serverProcess' = "spawned"
  /\ pc' = "executePlaywright"
  /\ testRuns' = testRuns + 1
  /\ UNCHANGED <<caller, config, input, fs0, fs, attempt, attempts, previousAttempt, fix,
                 backup, result, retryCount, testGen, testResult, liveServers,
                 fixCalls, rollbackThrew, args, frame, ret>>

\* waitForServer threw after its timeout: startDevServer rejects, the finally
\* of runTests runs with its serverProcess still unassigned, and the error
\* leaves runVerificationPipeline (the runTests call is not in a try).
ServerTimeout ==
  /\ pc = "waitForServer"
  /\ ev' = "server timeout"
  /\ liveServers' = IF FinallyKills(serverProcess) THEN liveServers - 1 ELSE liveServers
  /\ VerificationThrows(ServerTimeoutMsg)
  /\ VerificationIdle
  /\ UNCHANGED <<caller, config, input, fs0>>

\* The test process exited: runTests collects artifacts, its finally kills the
\* server, and the self-healing loop decides.
TestExits(outcome) ==
  /\ pc = "executePlaywright"
  /\ LET tr == [passed |-> outcome.passed, errorMessage |-> outcome.errorMessage,
                stderr |-> outcome.stderr, screenshots |-> outcome.screenshots,
                testVersion |-> testGen[1].version, run |-> testRuns]
         rc == IF tr.passed THEN retryCount ELSE retryCount + 1
     IN  /\ liveServers' = IF FinallyKills(serverProcess)
                           THEN liveServers - 1 ELSE liveServers
         /\ IF tr.passed
            THEN ev' = "test passed" /\ AfterTestLoop(testGen, tr, rc)
            ELSE IF RetriesExhausted(rc, config.maxRetries)
            THEN ev' = "test failed, exhausted" /\ AfterTestLoop(testGen, tr, rc)
            ELSE /\ ev' = "test failed, healing"
                 /\ pc' = "regenerateTest"
                 /\ testResult' = Some(tr)
                 /\ retryCount' = rc
                 /\ serverProcess' = Undefined
                 /\ UNCHANGED <<fs, attempt, attempts, previousAttempt, fix,
                                backup, result, testGen,
                                fixCalls, rollbackThrew, args, frame, ret, testRuns>>
  /\ UNCHANGED <<caller, config, input, fs0>>

\* regenerateTest returned the healed test; the loop runs it.
RegenerateTestReturns ==
  /\ pc = "regenerateTest"
  /\ ev' = "test regenerated"
  /\ testGen' = Some([version |-> testGen[1].version + 1,
                      errorContext |-> Some(ErrorOutput(testResult[1]))])
  /\ CallRunTests
  /\ UNCHANGED <<caller, config, input, fs0, fs, attempt, attempts, previousAttempt, fix,
                 backup, result, retryCount, testResult, fixCalls, rollbackThrew, args, frame, ret>>

\* Mutant: the error of regenerateTest is rethrown.
RegenerateTestThrows_Rethrown ==
  /\ pc = "regenerateTest"
  /\ ev' = "regenerateTest threw"
  /\ VerificationThrows("Self-healing failed")
  /\ VerificationIdle
  /\ UNCHANGED <<caller, config, input, fs0, liveServers>>

\* Mutant: testGen is overwritten although regenerateTest threw.
RegenerateTestThrows_NewTestKept ==
  /\ pc = "regenerateTest"
  /\ ev' = "regenerateTest threw"
  /\ AfterTestLoop(Some([version |-> testGen[1].version + 1,
                         errorContext |-> Some(ErrorOutput(testResult[1]))]),
                   testResult[1], retryCount)
  /\ UNCHANGED <<caller, config, input, fs0, liveServers>>

\* regenerateTest threw: "Self-healing failed", break.
RegenerateTestThrows ==
  /\ pc = "regenerateTest"
  /\ ev' = "regenerateTest threw"
  /\ AfterTestLoop(testGen, testResult[1], retryCount)
  /\ UNCHANGED <<caller, config, input, fs0, liveServers>>

\* Mutant: the error of analyzeScreenshots is not caught.
VisualAnalysisEnds_Uncaught(vr) ==
  /\ pc = "analyzeScreenshots"
  /\ ev' = IF vr = None THEN "analyzeScreenshots threw" ELSE "screenshots analyzed"
  /\ IF vr = None
     THEN VerificationThrows("Visual analysis failed")
     ELSE VerificationReturns(VerificationResult(testGen, testResult[1], vr, retryCount))
  /\ VerificationIdle
  /\ UNCHANGED <<caller, config, input, fs0, liveServers>>

\* analyzeScreenshots returned a report, or threw and was caught.
VisualAnalysisEnds(vr) ==
  /\ pc = "analyzeScreenshots"
  /\ ev' = IF vr = None THEN "analyzeScreenshots threw" ELSE "screenshots analyzed"
  /\ VerificationReturns(VerificationResult(testGen, testResult[1], vr, retryCount))
  /\ VerificationIdle
  /\ UNCHANGED <<caller, config, input, fs0, liveServers>>

VisualReports ==
  { None,
    Some([passed |-> TRUE, overallAssessment |-> "looks fixed"]),
    Some([passed |-> FALSE, overallAssessment |-> "button overlaps"]) }

Next ==
  \/ Start
  \/ GenerateFixThrows
  \/ \E f \in ServiceFixes : FixApplied(f)
  \/ \E f \in ServiceFixes : \E k \in 1..Len(f.changes) : ApplyThrows(f, k)
  \/ GenerateTestThrows
  \/ GenerateTestReturns
  \/ ServerReady
  \/ ServerTimeout
  \/ \E outcome \in TestOutcomes : TestExits(outcome)
  \/ RegenerateTestReturns
  \/ RegenerateTestThrows
  \/ \E vr \in VisualReports : VisualAnalysisEnds(vr)

Spec == Init /\ [][Next]_vars

\* runFixAndVerifyPipeline when every awaited call (fix service, test
\* service, readiness poll, test process, visual service) returns or throws:
\* a pending resumption is eventually taken.
InitLive ==
  /\ Init
  /\ caller = "fixAndVerify"
  /\ fs0 = [p \in Paths |-> "o"]

SpecLive == InitLive /\ [][Next]_vars /\ WF_vars(Next)

\* ------------------------------------- the error context for self-healing

\* runFixAndVerifyPipeline with failing test executions of every kind: an
\* error message, only stderr, neither, both, with and without screenshots
\* for the visual analysis.
TestOutcomesFeed ==
  TestOutcomes \cup
  { [passed |-> FALSE, errorMessage |-> Undefined, stderr |-> "timeout", screenshots |-> 1],
    [passed |-> FALSE, errorMessage |-> Undefined, stderr |-> "", screenshots |-> 0],
    [passed |-> FALSE, errorMessage |-> "element not found", stderr |-> "timeout", screenshots |-> 1] }

\* The fix service proposes one change to one file.
FeedFixes == {f \in ServiceFixes : Len(f.changes) = 1}

InitFeed ==
  /\ InitLive
  /\ config.maxRetries = MaxRetriesCfg
  /\ input.startServer = FALSE

NextFeed ==
  \/ Start
  \/ GenerateFixThrows
  \/ \E f \in FeedFixes : FixApplied(f)
  \/ \E f \in FeedFixes : \E k \in 1..Len(f.changes) : ApplyThrows(f, k)
  \/ GenerateTestThrows
  \/ GenerateTestReturns
  \/ \E outcome \in TestOutcomesFeed : TestExits(outcome)
  \/ RegenerateTestReturns
  \/ RegenerateTestThrows
  \/ \E vr \in VisualReports : VisualAnalysisEnds(vr)

SpecFeed == InitFeed /\ [][NextFeed]_vars

\* ------------------------------------------ runVerificationPipeline on its own

\* runVerificationPipeline called by verifyFixCommand, with every kind of
\* outcome of a test execution: screenshots or none after a pass and after a
\* failure, an error message or only stderr.
TestOutcomesVp ==
  TestOutcomes \cup
  { [passed |-> TRUE,  errorMessage |-> Undefined, stderr |-> "", screenshots |-> 0],
    [passed |-> FALSE, errorMessage |-> "element not found", stderr |-> "", screenshots |-> 1],
    [passed |-> FALSE, errorMessage |-> Undefined, stderr |-> "timeout", screenshots |-> 0] }

InitVp ==
  /\ caller = "verifyFix"
  /\ config \in [maxRetries : RetryConfigs, enableVisualAnalysis : BOOLEAN]
  /\ input \in [startServer : BOOLEAN]
  /\ fs0 = [p \in Paths |-> "o"]
  /\ fs = fs0
  /\ pc = "generateTest"
  /\ attempt = 0
  /\ attempts = <<>>
  /\ previousAttempt = None
  /\ fix = None
  /\ backup = <<>>
  /\ result = None
  /\ retryCount = 0
  /\ testGen = None
  /\ testResult = None
  /\ serverProcess = Undefined
  /\ liveServers = 0
  /\ fixCalls = 0
  /\ rollbackThrew = FALSE
  /\ args = None
  /\ frame = None
  /\ ret = None
  /\ testRuns = 0
  /\ ev = "called"

NextVp ==
  \/ GenerateTestThrows
  \/ GenerateTestReturns
  \/ ServerReady
  \/ ServerTimeout
  \/ \E outcome \in TestOutcomesVp : TestExits(outcome)
  \/ RegenerateTestReturns
  \/ RegenerateTestThrows
  \/ \E vr \in VisualReports : VisualAnalysisEnds(vr)

SpecVp == InitVp /\ [][NextVp]_vars

\* ------------------------------------- applyFix and rollbackFix on their own

\* applyFix and rollbackFix called on any workspace with any FixResult, and
\* rollbackFix called with any FixBackup.
FixResults == { [changes |-> c, approach |-> "service"] : c \in SeqsUpTo(FileChange, MaxChanges) }
BackupFiles == [filePath : Paths, originalContent : Contents]
FixBackups == SeqsUpTo(BackupFiles, MaxChanges)

InitFs ==
  /\ caller = "applyRollback"
  /\ config = [maxRetries |-> 1, enableVisualAnalysis |-> FALSE]
  /\ input = [startServer |-> FALSE]
  /\ fs0 \in Workspaces
  /\ fs = fs0
  /\ \/ pc = "applyFix" /\ fix \in {Some(f) : f \in FixResults} /\ backup = <<>>
     \/ pc = "rollbackFix" /\ fix = None /\ backup \in FixBackups
  /\ attempt = 0
  /\ attempts = <<>>
  /\ previousAttempt = None
  /\ result = None
  /\ retryCount = 0
  /\ testGen = None
  /\ testResult = None
  /\ serverProcess = Undefined
  /\ liveServers = 0
  /\ fixCalls = 0
  /\ rollbackThrew = FALSE
  /\ args = None
  /\ frame = None
  /\ ret = None
  /\ testRuns = 0
  /\ ev = "called"

FsUnchanged ==
  UNCHANGED <<caller, config, input, fs0, fix, attempt, attempts, previousAttempt,
              result, retryCount, testGen, testResult, serverProcess,
              liveServers, fixCalls, rollbackThrew, args, frame, ret, testRuns>>

\* backup = applyFix(config, fix)
FsApplyFix ==
  /\ pc = "applyFix"
  /\ LET applied == ApplyFix(fs, fix[1])
     IN  fs' = applied.fs /\ backup' = applied.files
  /\ pc' = "rollbackFix"
  /\ ev' = "applied"
  /\ FsUnchanged

\* rollbackFix(config, backup)
FsRollbackFix ==
  /\ pc = "rollbackFix"
  /\ fs' = RollbackFix(fs, backup)
  /\ backup' = backup
  /\ pc' = "rollbackFix again"
  /\ ev' = IF ev = "applied" THEN "applied, rolled back" ELSE "rolled back"
  /\ FsUnchanged

\* rollbackFix(config, backup), a second time
FsRollbackFixAgain ==
  /\ pc = "rollbackFix again"
  /\ fs' = RollbackFix(fs, backup)
  /\ backup' = backup
  /\ pc' = "returned"
  /\ ev' = "rolled back twice"
  /\ FsUnchanged

NextFs == FsApplyFix \/ FsRollbackFix \/ FsRollbackFixAgain

SpecFs == InitFs /\ [][NextFs]_vars

\* ------------------------------------------------ functions on their own

\* The pipeline's variables while one function is exercised on its own.
InitIdle(c) ==
  /\ caller = c
  /\ config = [maxRetries |-> 1, enableVisualAnalysis |-> FALSE]
  /\ input = [startServer |-> FALSE]
  /\ fs0 = [p \in Paths |-> "o"]
  /\ fs = fs0
  /\ attempt = 0
  /\ attempts = <<>>
  /\ previousAttempt = None
  /\ fix = None
  /\ backup = <<>>
  /\ result = None
  /\ retryCount = 0
  /\ testGen = None
  /\ testResult = None
  /\ serverProcess = Undefined
  /\ liveServers = 0
  /\ fixCalls = 0
  /\ rollbackThrew = FALSE
  /\ testRuns = 0

PipelineIdle ==
  UNCHANGED <<caller, config, input, fs0, fs, attempt, attempts, previousAttempt,
              fix, backup, result, retryCount, testGen, testResult,
              serverProcess, liveServers, fixCalls, rollbackThrew, testRuns>>

\* ------------------------------------- runTests, startDevServer, waitForServer

\* waitForServer(config.baseUrl, 30000, onOutput)
WaitTimeoutMs == 30000
\* req.setTimeout(2000, ...)
RequestTimeoutMs == 2000
\* setTimeout(resolve, 1000) between two polls
RetryDelayMs == 1000

\* Time a poll takes to settle, and the status codes a response can carry
\* (0 stands for a missing statusCode).
ResponseDelays == {0, 1000, RequestTimeoutMs}
StatusCodes == {0, 200, 404, 499, 500, 503}

\* Mutant: any response counts as ready.
StatusReady_AnyResponse(status) == TRUE

\* if (res.statusCode && res.statusCode < 500) resolve()
StatusReady(status) == status # 0 /\ status < 500

\* while (Date.now() - start < timeoutMs)
WaitLoopTest(now, timeoutMs) == now < timeoutMs

InitRun ==
  /\ InitIdle("runTests")
  /\ pc = "runTests"
  /\ args \in [startServer : BOOLEAN]
  /\ frame = [now |-> 0, serverProcess |-> Undefined, serverAlive |-> FALSE,
              pollStart |-> 0, ready |-> None, playwrightStarted |-> FALSE]
  /\ ret = None
  /\ ev = "called"

\* runTests up to its first await: the server is spawned and the first poll
\* sent, or executePlaywright is started at once.
RunTestsCalled ==
  /\ pc = "runTests"
  /\ ev' = "started"
  /\ IF args.startServer
     THEN /\ pc' = "http.get"
          /\ frame' = [frame EXCEPT !.serverAlive = TRUE, !.pollStart = frame.now]
     ELSE /\ pc' = "executePlaywright"
          /\ frame' = [frame EXCEPT !.playwrightStarted = TRUE]
  /\ UNCHANGED <<args, ret>>
  /\ PipelineIdle

\* The poll is rejected at time t (bad status, request error or request
\* timeout): the catch sleeps, then the loop test sends the next poll or
\* waitForServer throws, startDevServer rejects and the finally of runTests
\* finds its serverProcess unassigned.
PollRejected(t) ==
  LET next == t + RetryDelayMs
  IN  IF WaitLoopTest(next, WaitTimeoutMs)
      THEN /\ pc' = "http.get"
           /\ frame' = [frame EXCEPT !.now = next, !.pollStart = next]
           /\ ret' = ret
      ELSE /\ pc' = "threw"
           /\ frame' = [frame EXCEPT !.now = next,
                                      !.serverAlive = IF FinallyKills(frame.serverProcess)
                                                      THEN FALSE ELSE frame.serverAlive]
           /\ ret' = Some(ServerTimeoutMsg)

\* A response with this status arrives d ms after the poll was sent.
PollResponds(status, d) ==
  /\ pc = "http.get"
  /\ ev' = "response"
  /\ IF StatusReady(status)
     THEN /\ pc' = "executePlaywright"
          /\ frame' = [frame EXCEPT !.now = frame.now + d,
                                     !.serverProcess = "spawned",
                                     !.ready = Some([at |-> frame.now + d, status |-> status,
                                                     pollStart |-> frame.pollStart]),
                                     !.playwrightStarted = TRUE]
          /\ ret' = ret
     ELSE PollRejected(frame.now + d)
  /\ UNCHANGED args
  /\ PipelineIdle

\* The request fails after d ms (connection refused, or the 2000 ms request
\* timeout destroys it).
PollFails(d) ==
  /\ pc = "http.get"
  /\ ev' = "request failed"
  /\ PollRejected(frame.now + d)
  /\ UNCHANGED args
  /\ PipelineIdle

\* The test process exits: runTests returns the TestResult and its finally
\* kills the server it holds.
TestProcessExits(outcome) ==
  /\ pc = "executePlaywright"
  /\ ev' = "test exited"
  /\ pc' = "returned"
  /\ ret' = Some(outcome)
  /\ frame' = [frame EXCEPT !.serverAlive = IF FinallyKills(frame.serverProcess)
                                            THEN FALSE ELSE frame.serverAlive]
  /\ UNCHANGED args
  /\ PipelineIdle

NextRun ==
  \/ RunTestsCalled
  \/ \E status \in StatusCodes, d \in ResponseDelays : PollResponds(status, d)
  \/ \E d \in ResponseDelays : PollFails(d)
  \/ \E outcome \in TestOutcomes : TestProcessExits(outcome)

SpecRun == InitRun /\ [][NextRun]_vars

\* ------------------------------------------------------- parseFixResponse

\* JSON values as JSON.parse gives them: a type tag and, for a string, its
\* text.  JUndefined is what reading a missing property gives.
JUndefined == [t |-> "undefined", v |-> ""]
JNull == [t |-> "null", v |-> ""]
JNumber == [t |-> "number", v |-> "5"]
JString(str) == [t |-> "string", v |-> str]

\* Values of the filePath and modifiedContent properties of an entry.
PropertyValues == {JUndefined, JNull, JNumber} \cup {JString(c) : c \in {"", "p1"}}

\* Entries of a changes array: objects with or without the two properties,
\* and values that are no objects.
ChangeObjects == [t : {"object"}, filePath : PropertyValues, modifiedContent : PropertyValues]
ChangeEntries == ChangeObjects \cup {JNull, JNumber, JString("p1")}

JArray(items) == [t |-> "array", v |-> items]
JObject(changes) == [t |-> "object", changes |-> changes]

\* What JSON.parse makes of the extracted text: a SyntaxError, or a value.
ParseError == [t |-> "SyntaxError", v |-> ""]
ParsedResponses ==
  {ParseError, JNull, JNumber, JString("p1"), JArray(<<>>)}
  \cup {JObject(c) : c \in {JUndefined, JNull, JNumber, JString(""), JString("p1")}}
  \cup {JObject(JArray(items)) : items \in SeqsUpTo(ChangeEntries, MaxChanges)}

Thrown(msg) == [threw |-> TRUE, message |-> msg, value |-> None]
Returned(x) == [threw |-> FALSE, message |-> "", value |-> Some(x)]

\* x.prop of a parsed value: a TypeError on null and undefined, undefined on
\* a value that has no such property.
ReadFilePath(change) ==
  IF change.t = "object" THEN change.filePath ELSE JUndefined
ReadModifiedContent(change) ==
  IF change.t = "object" THEN change.modifiedContent ELSE JUndefined

\* path.resolve(workspaceRoot, relativePath) throws unless relativePath is a
\* string.
PathResolveThrows(relativePath) == relativePath.t # "string"

\* Mutant: the diff is skipped for a content that is no string.
SplitThrows_Skipped(modified) == FALSE

\* generateSimpleDiff: modified.split('\n') throws unless modified is a string.
SplitThrows(modified) == modified.t # "string"

\* The callback of parsed.changes.map for one entry: it throws a TypeError,
\* or gives the FileChange.
MapChangeThrows(change) ==
  \/ change.t \in {"null", "undefined"}
  \/ PathResolveThrows(ReadFilePath(change))
  \/ SplitThrows(ReadModifiedContent(change))

MapChange(change) ==
  [filePath |-> ReadFilePath(change), modifiedContent |-> ReadModifiedContent(change)]

\* !parsed.changes || !Array.isArray(parsed.changes)
ChangesMissing(parsed) ==
  \/ parsed.t # "object"
  \/ parsed.changes.t # "array"

ParseFixResponse(parsed) ==
  IF parsed.t = "SyntaxError" THEN Thrown("Failed to parse fix response as JSON")
  ELSE IF parsed.t = "null" THEN Thrown("TypeError")
  ELSE IF ChangesMissing(parsed) THEN Thrown(GenerationErrorMsg)
  ELSE LET items == parsed.changes.v
       IN  IF \E i \in 1..Len(items) : MapChangeThrows(items[i])
           THEN Thrown("TypeError")
           ELSE Returned([changes |-> [i \in 1..Len(items) |-> MapChange(items[i])],
                          approach |-> "service"])

InitParse ==
  /\ InitIdle("parseFixResponse")
  /\ pc = "parseFixResponse"
  /\ args \in ParsedResponses
  /\ frame = None
  /\ ret = None
  /\ ev = "called"

\* generateFix: return parseFixResponse(responseText, ...), or its error.
ParseFixResponseRuns ==
  /\ pc = "parseFixResponse"
  /\ ret' = Some(ParseFixResponse(args))
  /\ pc' = IF ParseFixResponse(args).threw THEN "threw" ELSE "returned"
  /\ ev' = "parsed"
  /\ UNCHANGED <<args, frame>>
  /\ PipelineIdle

NextParse == ParseFixResponseRuns

SpecParse == InitParse /\ [][NextParse]_vars

\* --------------------------------------------------- analyzeRelevantFiles

\* Longest hint list and longest suggestion array explored.
MaxHints == 2
MaxSuggested == 2

\* Hint strings: relative and absolute spellings of existing files, and a
\* file that does not exist.  big.ts is longer than 50000 characters.
HintPaths == {"a.ts", "/ws/a.ts", "b.ts", "big.ts", "gone.ts"}
SuggestedPaths == {"a.ts", "b.ts", "big.ts", "gone.ts"}

\* path.isAbsolute(filePath) ? filePath : path.resolve(workspaceRoot, filePath)
ResolvePath(p) == IF p = "/ws/a.ts" THEN p ELSE "/ws/" \o p

\* fs.existsSync(absolutePath)
ExistsSync(absolutePath) == absolutePath # "/ws/gone.ts"

\* content.length <= 50000
WithinSizeLimit(absolutePath) == absolutePath # "/ws/big.ts"

\* Entries of the array the service suggests: objects with a path or
\* without one, and values that are no objects.
SuggestedEntries ==
  {[t |-> "object", path |-> JString(p)] : p \in SuggestedPaths}
  \cup {[t |-> "object", path |-> JUndefined], JNull, JNumber}

\* The text of the response: no [...] in it, a [...] that JSON.parse
\* rejects, or an array.
NoJsonArray == [t |-> "no match", v |-> <<>>]
InvalidJson == [t |-> "SyntaxError", v |-> <<>>]
ServiceResponses ==
  {NoJsonArray, InvalidJson}
  \cup {JArray(items) : items \in SeqsUpTo(SuggestedEntries, MaxSuggested)}

\* "Start with user-provided hint files": the loop after n hints.
RECURSIVE HintedFiles(_, _)
HintedFiles(hintFiles, n) ==
  IF n = 0 THEN <<>>
  ELSE LET before == HintedFiles(hintFiles, n - 1)
           absolutePath == ResolvePath(hintFiles[n])
       IN  IF ExistsSync(absolutePath)
           THEN Append(before, [absolutePath |-> absolutePath,
                                reason |-> "User-specified file"])
           ELSE before

\* relevantFiles.some(f => f.absolutePath === absolutePath)
AlreadyListed(files, absolutePath) ==
  \E i \in 1..Len(files) : files[i].absolutePath = absolutePath

\* suggested.path: a TypeError on null; path.resolve throws unless it is a
\* string.
SuggestedThrows(suggested) ==
  \/ suggested.t = "null"
  \/ suggested.t # "object"
  \/ suggested.path.t # "string"

\* for (const suggested of suggestedFiles) after n entries: the list, and
\* whether an entry threw (the catch then ends the loop).
RECURSIVE SuggestedLoop(_, _, _)
SuggestedLoop(files, items, n) ==
  IF n = 0 THEN [files |-> files, threw |-> FALSE]
  ELSE LET before == SuggestedLoop(files, items, n - 1)
       IN  IF before.threw THEN before
           ELSE IF SuggestedThrows(items[n]) THEN [files |-> before.files, threw |-> TRUE]
           ELSE LET absolutePath == ResolvePath(items[n].path.v)
                IN  IF /\ ExistsSync(absolutePath)
                       /\ ~AlreadyListed(before.files, absolutePath)
                       /\ WithinSizeLimit(absolutePath)
                    THEN [files |-> Append(before.files,
                                           [absolutePath |-> absolutePath,
                                            reason |-> "service"]),
                          threw |-> FALSE]
                    ELSE before

AnalyzeRelevantFiles(hintFiles, response) ==
  LET hinted == HintedFiles(hintFiles, Len(hintFiles))
  IN  IF response.t = "array"
      THEN SuggestedLoop(hinted, response.v, Len(response.v)).files
      ELSE hinted

InitSelect ==
  /\ InitIdle("analyzeRelevantFiles")
  /\ pc = "messages.create"
  /\ args \in [hintFiles : SeqsUpTo(HintPaths, MaxHints)]
  /\ frame = [relevantFiles |-> HintedFiles(args.hintFiles, Len(args.hintFiles))]
  /\ ret = None
  /\ ev = "called"

\* The service answered: the response is parsed and the list returned.
ServiceAnswers(response) ==
  /\ pc = "messages.create"
  /\ pc' = "returned"
  /\ ev' = response.t
  /\ frame' = [relevantFiles |-> AnalyzeRelevantFiles(args.hintFiles, response),
               response |-> response]
  /\ ret' = Some(Returned(AnalyzeRelevantFiles(args.hintFiles, response)))
  /\ UNCHANGED args
  /\ PipelineIdle

NextSelect == \E response \in ServiceResponses : ServiceAnswers(response)

SpecSelect == InitSelect /\ [][NextSelect]_vars

\* ----------------------------------------------------- generateSimpleDiff

\* Most lines of a file content explored.
MaxLines == 5

\* The lines of a content, content.split('\n'): at least one line.
LineTexts == {"x", "y"}
LineLists == SeqsUpTo(LineTexts, MaxLines) \ {<<>>}

Max2(a, b) == IF a >= b THEN a ELSE b

\* Mutant: the locals are module-level and keep what the last call left.
DiffLocals_Kept(left) ==
  [diffLines |-> <<>>, inHunk |-> left.inHunk, hunkStart |-> left.hunkStart,
   hunkLines |-> left.hunkLines]

\* const diffLines = []; let inHunk = false; let hunkStart = -1;
\* const hunkLines = []: fresh at every call, whatever the last call left.
DiffLocals(left) ==
  [diffLines |-> <<>>, inHunk |-> FALSE, hunkStart |-> -1, hunkLines |-> <<>>]

\* Output lines: the two header lines, a hunk header, and hunk lines with
\* their prefix character.
HeaderLines(fileName) == << <<"--- a/", fileName>>, <<"+++ b/", fileName>> >>
HunkHeader(hunkStart) == <<"@@", hunkStart + 1>>
ContextLine(text) == <<" ", text>>
RemovedLine(text) == <<"-", text>>
AddedLine(text) == <<"+", text>>

\* hunkLines.filter(l => l.startsWith(' ')).length
ContextCount(hunkLines) ==
  Cardinality({k \in 1..Len(hunkLines) : hunkLines[k][1] = " "})

\* One iteration of the loop, for the 0-based index i.
DiffStep(d, origLines, modLines, i) ==
  LET hasOrig == i < Len(origLines)
      hasMod == i < Len(modLines)
      same == hasOrig /\ hasMod /\ origLines[i + 1] = modLines[i + 1]
  IN  IF same
      THEN IF d.inHunk
           THEN LET pushed == Append(d.hunkLines, ContextLine(origLines[i + 1]))
                IN  IF ContextCount(pushed) >= 3
                    THEN [diffLines |-> d.diffLines \o <<HunkHeader(d.hunkStart)>> \o pushed,
                          inHunk |-> FALSE, hunkStart |-> d.hunkStart, hunkLines |-> <<>>]
                    ELSE [d EXCEPT !.hunkLines = pushed]
           ELSE d
      ELSE LET opened ==
                 IF d.inHunk THEN d
                 ELSE [d EXCEPT !.inHunk = TRUE,
                                !.hunkStart = Max2(0, i - 1),
                                !.hunkLines = IF i > 0
                                              THEN Append(d.hunkLines, ContextLine(origLines[i]))
                                              ELSE d.hunkLines]
               added ==
                 IF hasOrig /\ hasMod
                 THEN <<RemovedLine(origLines[i + 1]), AddedLine(modLines[i + 1])>>
                 ELSE IF hasOrig THEN <<RemovedLine(origLines[i + 1])>>
                 ELSE <<AddedLine(modLines[i + 1])>>
           IN  [opened EXCEPT !.hunkLines = opened.hunkLines \o added]

\* for (let i = 0; i < maxLen; i++) after its first n iterations.
RECURSIVE DiffLoop(_, _, _, _)
DiffLoop(d, origLines, modLines, n) ==
  IF n = 0 THEN d
  ELSE DiffStep(DiffLoop(d, origLines, modLines, n - 1), origLines, modLines, n - 1)

\* The locals when generateSimpleDiff returns, with the remaining hunk flushed.
DiffRun(left, fileName, origLines, modLines) ==
  LET start == [DiffLocals(left) EXCEPT !.diffLines = HeaderLines(fileName)]
      d == DiffLoop(start, origLines, modLines, Max2(Len(origLines), Len(modLines)))
  IN  IF Len(d.hunkLines) > 0
      THEN [d EXCEPT !.diffLines = d.diffLines \o <<HunkHeader(d.hunkStart)>> \o d.hunkLines]
      ELSE d

\* return diffLines.join('\n')
GenerateSimpleDiff(left, fileName, origLines, modLines) ==
  DiffRun(left, fileName, origLines, modLines).diffLines

\* The calls made between the two evaluations compared.
OtherDiffInputs ==
  { [fileName |-> "g.ts", original |-> <<"x", "x">>, modified |-> <<"x", "y">>],
    [fileName |-> "g.ts", original |-> <<"y">>, modified |-> <<"y">>] }

InitDiff ==
  /\ InitIdle("generateSimpleDiff")
  /\ pc = "first call"
  /\ args \in [fileName : {"f.ts"}, original : LineLists, modified : LineLists]
  /\ frame = [diffLines |-> <<>>, inHunk |-> FALSE, hunkStart |-> -1, hunkLines |-> <<>>]
  /\ ret = <<>>
  /\ ev = "called"

\* The pipeline's variables but the workspace.
DiffIdle ==
  UNCHANGED <<caller, config, input, fs0, attempt, attempts, previousAttempt,
              fix, backup, result, retryCount, testGen, testResult,
              serverProcess, liveServers, fixCalls, rollbackThrew, testRuns>>

\* generateSimpleDiff(fileName, original, modified); frame holds what the
\* call leaves behind, ret the outputs so far.
DiffCalled ==
  /\ pc \in {"first call", "second call"}
  /\ frame' = DiffRun(frame, args.fileName, args.original, args.modified)
  /\ ret' = Append(ret, GenerateSimpleDiff(frame, args.fileName, args.original, args.modified))
  /\ pc' = IF pc = "first call" THEN "between" ELSE "returned"
  /\ ev' = "diffed"
  /\ fs' = fs
  /\ UNCHANGED args
  /\ DiffIdle

\* Between the two evaluations: the workspace changes and the function is
\* called on other inputs.
DiffCalledOnOther(other, p, content) ==
  /\ pc = "between"
  /\ frame' = DiffRun(frame, other.fileName, other.original, other.modified)
  /\ fs' = WriteFile(fs, p, content)
  /\ pc' = "second call"
  /\ ev' = "other call"
  /\ UNCHANGED <<args, ret>>
  /\ DiffIdle

NextDiff ==
  \/ DiffCalled
  \/ \E other \in OtherDiffInputs, p \in {"p1"}, content \in {"o", "a"} :
       DiffCalledOnOther(other, p, content)

SpecDiff == InitDiff /\ [][NextDiff]_vars

\* ------------------------------------------------------ scripts/verify.ts

\* Largest --retries value explored.
MaxCliRetries == 4

\* parseArgs: bug is '' when neither --bug nor BUG_DESCRIPTION gives one;
\* retries is parseInt(...) and so NaN (None here) for a value that is no
\* number, 3 without the option.
CliArgs ==
  [bug : {"", "button does nothing"},
   apiKey : {"", "key"},
   retries : {None} \cup {Some(n) : n \in 0..MaxCliRetries}]

\* attempt <= args.retries and attempt < args.retries: false with NaN.
CliLoopTest(a, retries) == retries # None /\ a <= retries[1]
CliHealTest(a, retries) == retries # None /\ a < retries[1]

InitCli ==
  /\ InitIdle("cli")
  /\ pc = "main"
  /\ args \in CliArgs
  /\ frame = [attempt |-> 0, passed |-> FALSE, generated |-> 0, outcomes |-> <<>>]
  /\ ret = None
  /\ ev = "called"

CliFrame ==
  /\ UNCHANGED args
  /\ PipelineIdle

\* process.exit(code), also from main().catch.
CliExit(code) == pc' = "exited" /\ ret' = Some(code)

\* The loop test before an execution, and what follows the loop: the
\* screenshot is looked for (Phase 3), the summary printed, and the exit.
CliLoopOrSummary(a, passed, shot) ==
  IF ~passed /\ CliLoopTest(a, args.retries)
  THEN pc' = "runPlaywright" /\ ret' = ret
  ELSE IF shot THEN pc' = "analyzeScreenshot" /\ ret' = ret
  ELSE CliExit(IF passed THEN 0 ELSE 1)

\* main up to its first await: the two checks of required input, then
\* generateTest is called.
CliMain ==
  /\ pc = "main"
  /\ ev' = "started"
  /\ IF args.bug = "" \/ args.apiKey = ""
     THEN CliExit(1)
     ELSE pc' = "generateTest" /\ ret' = ret
  /\ frame' = frame
  /\ CliFrame

\* generateTest returned: the test is written and the loop entered.
CliTestGenerated(shot) ==
  /\ pc = "generateTest"
  /\ ev' = "test generated"
  /\ frame' = [frame EXCEPT !.generated = 1, !.attempt = 1]
  /\ CliLoopOrSummary(1, FALSE, shot)
  /\ CliFrame

\* An awaited service call or a file-system call throws: main rejects and
\* main().catch exits with 1.
CliFatalError ==
  /\ pc \in {"generateTest", "regenerateTest", "analyzeScreenshot"}
  /\ ev' = "fatal error"
  /\ CliExit(1)
  /\ frame' = frame
  /\ CliFrame

\* The test process closed with this verdict.
CliTestClosed(passed, shot) ==
  /\ pc = "runPlaywright"
  /\ ev' = IF passed THEN "test passed" ELSE "test failed"
  /\ LET outcomes == Append(frame.outcomes, passed)
     IN  IF passed
         THEN /\ frame' = [frame EXCEPT !.passed = TRUE, !.outcomes = outcomes]
              /\ CliLoopOrSummary(frame.attempt, TRUE, shot)
         ELSE IF CliHealTest(frame.attempt, args.retries)
         THEN /\ frame' = [frame EXCEPT !.outcomes = outcomes]
              /\ pc' = "regenerateTest" /\ ret' = ret
         ELSE /\ frame' = [frame EXCEPT !.outcomes = outcomes,
                                        !.attempt = frame.attempt + 1]
              /\ CliLoopOrSummary(frame.attempt + 1, FALSE, shot)
  /\ CliFrame

\* regenerateTest returned: the test is rewritten, attempt++.
CliTestRegenerated(shot) ==
  /\ pc = "regenerateTest"
  /\ ev' = "test regenerated"
  /\ frame' = [frame EXCEPT !.generated = frame.generated + 1,
                            !.attempt = frame.attempt + 1]
  /\ CliLoopOrSummary(frame.attempt + 1, FALSE, shot)
  /\ CliFrame

\* analyzeScreenshot returned: report saved, summary, exit.
CliScreenshotAnalyzed ==
  /\ pc = "analyzeScreenshot"
  /\ ev' = "screenshot analyzed"
  /\ CliExit(IF frame.passed THEN 0 ELSE 1)
  /\ frame' = frame
  /\ CliFrame

NextCli ==
  \/ CliMain
  \/ \E shot \in BOOLEAN : CliTestGenerated(shot)
  \/ CliFatalError
  \/ \E passed \in BOOLEAN, shot \in BOOLEAN : CliTestClosed(passed, shot)
  \/ \E shot \in BOOLEAN : CliTestRegenerated(shot)
  \/ CliScreenshotAnalyzed

SpecCli == InitCli /\ [][NextCli]_vars

\* ------------------------------------------------------- executePlaywright

\* Largest numbers of suites in a report and of specs in a suite.
MaxSuites == 2
MaxSpecs == 1

\* A spec of the JSON reporter: ok, and tests[0].results[0].error.message
\* when every step of that path exists.
ReportSpecs == [ok : BOOLEAN, message : {None, Some("expected visible")}]

\* A suite: its specs, or no specs property.
ReportSuites ==
  {[specs |-> None]} \cup {[specs |-> Some(l)] : l \in SeqsUpTo(ReportSpecs, MaxSpecs)}

\* The suites property of the parsed output.
SuitesValues ==
  {[t |-> "undefined", v |-> <<>>], [t |-> "string", v |-> <<>>]}
  \cup {[t |-> "array", v |-> l] : l \in SeqsUpTo(ReportSuites, MaxSuites)}

\* What the test process wrote to stdout: the text, and what JSON.parse makes
\* of it (None: a SyntaxError).
NoSuites == [t |-> "undefined", v |-> <<>>]
StdoutTexts ==
  { [raw |-> "", json |-> None],
    [raw |-> "Error: browser not installed", json |-> None],
    [raw |-> "null", json |-> Some([t |-> "null", suites |-> NoSuites])],
    [raw |-> "5", json |-> Some([t |-> "number", suites |-> NoSuites])] }
  \cup { [raw |-> "<report>", json |-> Some([t |-> "object", suites |-> sv])] :
           sv \in SuitesValues }
StderrTexts == {"", "npm ERR! code 1"}

\* The code of the close event: null when a signal ended the process.
ExitCodes == {None, Some(0), Some(1)}

\* suites.flatMap(s => s.specs?.filter(spec => spec.ok === false) || [])
RECURSIVE FailedSuites(_)
FailedSuites(suites) ==
  IF suites = <<>> THEN <<>>
  ELSE (IF Head(suites).specs = None THEN <<>>
        ELSE SelectSeq(Head(suites).specs[1], LAMBDA spec : ~spec.ok))
       \o FailedSuites(Tail(suites))

\* result?.error?.message || 'Unknown error', for each failed spec; the
\* sequence stands for the texts joined by '\n---\n'.
RECURSIVE SpecMessages(_)
SpecMessages(specs) ==
  IF specs = <<>> THEN <<>>
  ELSE <<IF Head(specs).message = None THEN "Unknown error" ELSE Head(specs).message[1]>>
       \o SpecMessages(Tail(specs))

\* The try block throws: a SyntaxError of JSON.parse, or a TypeError reading
\* suites of null or calling flatMap on what is no array.
ExtractThrows(stdout) ==
  \/ stdout.json = None
  \/ stdout.json[1].t = "null"
  \/ stdout.json[1].suites.t = "string"

\* errorMessage of a run that did not pass: the catch gives stderr || stdout;
\* without a throw it is assigned only when failed specs were found.
ErrorMessageOf(stdout, stderr) ==
  IF ExtractThrows(stdout)
  THEN Some(<<IF stderr # "" THEN stderr ELSE stdout.raw>>)
  ELSE LET failedSuites == IF stdout.json[1].suites.t = "undefined" THEN <<>>
                           ELSE FailedSuites(stdout.json[1].suites.v)
       IN  IF failedSuites # <<>> THEN Some(SpecMessages(failedSuites)) ELSE None

\* playwrightProcess.on('close', ...): what the promise resolves with.
OnClose(code, stdout, stderr) ==
  LET passed == code = Some(0)
  IN  [passed |-> passed, stdout |-> stdout, stderr |-> stderr,
       errorMessage |-> IF passed THEN None ELSE ErrorMessageOf(stdout, stderr)]

\* The process is spawned; nothing was written yet.
InitExec ==
  /\ InitIdle("executePlaywright")
  /\ pc = "spawned"
  /\ args = None
  /\ frame = [stdout |-> [raw |-> "", json |-> None], stderr |-> ""]
  /\ ret = None
  /\ ev = "called"

\* stdout 'data': stdout += text (the output arrives as one text).
StdoutData(text) ==
  /\ pc = "spawned"
  /\ frame.stdout.raw = ""
  /\ text.raw # ""
  /\ frame' = [frame EXCEPT !.stdout = text]
  /\ ev' = "stdout"
  /\ UNCHANGED <<pc, args, ret>>
  /\ PipelineIdle

\* stderr 'data': stderr += text.
StderrData(text) ==
  /\ pc = "spawned"
  /\ frame.stderr = ""
  /\ text # ""
  /\ frame' = [frame EXCEPT !.stderr = text]
  /\ ev' = "stderr"
  /\ UNCHANGED <<pc, args, ret>>
  /\ PipelineIdle

\* 'close': the promise resolves.
ProcessClosed(code) ==
  /\ pc = "spawned"
  /\ args' = Some(code)
  /\ ret' = Some(OnClose(code, frame.stdout, frame.stderr))
  /\ pc' = "returned"
  /\ ev' = "closed"
  /\ UNCHANGED frame
  /\ PipelineIdle

NextExec ==
  \/ \E text \in StdoutTexts : StdoutData(text)
  \/ \E text \in StderrTexts : StderrData(text)
  \/ \E code \in ExitCodes : ProcessClosed(code)

SpecExec == InitExec /\ [][NextExec]_vars

\* ------------------------------------------------- runTests: collectFiles

\* Largest number of files under the output directory.
MaxFiles == 3

\* Directories under the output directory, as paths from it; one has a name
\* that ends like a trace.
ArtifactDirs == {<<>>, <<"t1">>, <<"t1", "out.zip">>}

\* File names: what precedes the ending, and the ending.
FileNames ==
  { [stem |-> "video", suffix |-> ".webm"], [stem |-> "video", suffix |-> ".mp4"],
    [stem |-> "shot", suffix |-> ".png"], [stem |-> "shot", suffix |-> ".jpg"],
    [stem |-> "shot", suffix |-> ".jpeg"], [stem |-> "trace", suffix |-> ".zip"],
    [stem |-> "shot", suffix |-> ".PNG"], [stem |-> "log", suffix |-> ".txt"] }
ArtifactFiles == [dir : ArtifactDirs, name : FileNames]

\* The order in which readdirSync lists the files of a directory; the
\* directories come after them.
ReaddirOrder ==
  << [stem |-> "log", suffix |-> ".txt"], [stem |-> "shot", suffix |-> ".PNG"],
     [stem |-> "shot", suffix |-> ".jpeg"], [stem |-> "shot", suffix |-> ".jpg"],
     [stem |-> "shot", suffix |-> ".png"], [stem |-> "trace", suffix |-> ".zip"],
     [stem |-> "video", suffix |-> ".mp4"], [stem |-> "video", suffix |-> ".webm"] >>

VideoExtensions == {".webm", ".mp4"}
ScreenshotExtensions == {".png", ".jpg", ".jpeg"}
TraceExtensions == {".zip"}

\* extensions.some(ext => entry.name.endsWith(ext))
EndsWithSome(name, extensions) == \E ext \in extensions : name.suffix = ext

IsPrefix(d, e) == Len(d) <= Len(e) /\ SubSeq(e, 1, Len(d)) = d

\* The directories readdirSync(currentDir) lists: those holding a file,
\* directly or further down.
SubDirs(files, currentDir) ==
  {d \in ArtifactDirs : /\ Len(d) = Len(currentDir) + 1
                        /\ IsPrefix(currentDir, d)
                        /\ \E f \in files : IsPrefix(d, f.dir)}

\* walk(currentDir): a directory is walked, a file is pushed when its name
\* ends with one of the extensions.
RECURSIVE WalkDirs(_, _, _)
RECURSIVE Walk(_, _, _)
Walk(files, currentDir, extensions) ==
  SelectSeq([i \in 1..Len(ReaddirOrder) |-> [dir |-> currentDir, name |-> ReaddirOrder[i]]],
            LAMBDA f : f \in files /\ EndsWithSome(f.name, extensions))
  \o WalkDirs(files, SubDirs(files, currentDir), extensions)
WalkDirs(files, dirs, extensions) ==
  IF dirs = {} THEN <<>>
  ELSE LET d == CHOOSE x \in dirs : TRUE
       IN  Walk(files, d, extensions) \o WalkDirs(files, dirs \ {d}, extensions)

\* collectFiles(dir, extensions): [] when the directory does not exist.
CollectFiles(out, extensions) ==
  IF ~out.exists THEN <<>> ELSE Walk(out.files, <<>>, extensions)

\* Mutant: the artifacts are collected only after a run that passed.
RunResult_OnlyOnPass(passed, out) ==
  [passed |-> passed,
   videos |-> IF passed THEN CollectFiles(out, VideoExtensions) ELSE <<>>,
   screenshots |-> IF passed THEN CollectFiles(out, ScreenshotExtensions) ELSE <<>>,
   traces |-> IF passed THEN CollectFiles(out, TraceExtensions) ELSE <<>>]

\* return { ...result, videos, screenshots, traces, duration }
RunResult(passed, out) ==
  [passed |-> passed,
   videos |-> CollectFiles(out, VideoExtensions),
   screenshots |-> CollectFiles(out, ScreenshotExtensions),
   traces |-> CollectFiles(out, TraceExtensions)]

\* runTests without a server, the test process running; the output directory
\* exists and is empty (cleanTestResults), or does not exist.
InitArt ==
  /\ InitIdle("collectFiles")
  /\ pc = "executePlaywright"
  /\ args = None
  /\ frame \in [exists : BOOLEAN, files : {{}}]
  /\ ret = None
  /\ ev = "called"

\* The test process writes a file under the output directory.
ArtifactWritten(f) ==
  /\ pc = "executePlaywright"
  /\ f \notin frame.files
  /\ Cardinality(frame.files) < MaxFiles
  /\ frame' = [exists |-> TRUE, files |-> frame.files \cup {f}]
  /\ ev' = "written"
  /\ UNCHANGED <<pc, args, ret>>
  /\ PipelineIdle

\* executePlaywright resolved: the artifacts are collected and runTests
\* returns.
ArtifactsCollected(passed) ==
  /\ pc = "executePlaywright"
  /\ ret' = Some(RunResult(passed, frame))
  /\ pc' = "returned"
  /\ ev' = "collected"
  /\ UNCHANGED <<args, frame>>
  /\ PipelineIdle

NextArt ==
  \/ \E f \in ArtifactFiles : ArtifactWritten(f)
  \/ \E passed \in BOOLEAN : ArtifactsCollected(passed)

SpecArt == InitArt /\ [][NextArt]_vars

\* ------------------------------------------------------------------ claims

Max(a, b) == IF a >= b THEN a ELSE b

\* runFixAndVerifyPipeline has returned a FixAndVerifyResult.
PipelineReturned == caller = "fixAndVerify" /\ pc = "returned" /\ result # None

\* The paths a FixResult names, and the content its last change to p writes.
NamedPaths(f) == { f.changes[i].filePath : i \in 1..Len(f.changes) }
LastWritten(f, p) ==
  LET idx == { i \in 1..Len(f.changes) : f.changes[i].filePath = p }
  IN  f.changes[CHOOSE i \in idx : \A j \in idx : j <= i].modifiedContent

AttemptPassed(a) == a.verification # None /\ a.verification[1].overallPassed

\* C1 (no residue on failure): whenever runFixAndVerifyPipeline has returned
\* succeeded = false, every workspace file exists, or not, and reads as it did
\* before the pipeline started.
C1_NoResidueOnFailure ==
  (PipelineReturned /\ ~result[1].succeeded) => fs = fs0

\* C2 (success state): whenever runFixAndVerifyPipeline has returned
\* succeeded = true, every file named in finalFix.changes holds the
\* modifiedContent written for it (that of the last change naming it), and
\* every other workspace file holds its pre-run content.
C2_SuccessState ==
  (PipelineReturned /\ result[1].succeeded) =>
    LET finalFix == result[1].finalFix[1]
    IN  \A p \in Paths :
          IF p \in NamedPaths(finalFix)
          THEN fs[p] = LastWritten(finalFix, p)
          ELSE fs[p] = fs0[p]

\* C3 (single-success short-circuit): once an attempt is recorded with
\* overallPassed = true, it is the last attempt, the pipeline has returned
\* success, attempts.length is that attempt's number, generateFix was called
\* exactly that many times, and the accepted fix is still applied (nothing
\* was rolled back after it).
C3_ShortCircuit ==
  caller = "fixAndVerify" =>
    \A i \in 1..Len(attempts) :
      AttemptPassed(attempts[i]) =>
        /\ i = Len(attempts)
        /\ attempts[i].attemptNumber = Len(attempts)
        /\ pc = "returned"
        /\ result = Some(SuccessResult(attempts[i].fix, attempts[i].verification[1]))
        /\ fixCalls = attempts[i].attemptNumber
        /\ \A p \in NamedPaths(attempts[i].fix) : fs[p] = LastWritten(attempts[i].fix, p)

\* C3 witness: the pipeline succeeded at its second attempt, after a failed one.
C3_Witness ==
  /\ PipelineReturned
  /\ result[1].succeeded
  /\ Len(attempts) = 2
  /\ attempts[1].verification # None
  /\ attempts[2].fix.changes # <<>>

\* C4 as stated (bounded retries, for every configured bound): the running
\* runVerificationPipeline has started at most maxRetries test executions
\* (none for a bound below zero), and at most maxAttempts fixes were generated.
C4_BoundedByMaxRetries ==
  /\ testRuns <= Max(config.maxRetries, 0)
  /\ caller = "fixAndVerify" => fixCalls <= Max(MaxAttempts, 0)

\* C4 as amended: one call of runVerificationPipeline executes the test at
\* most max(1, maxRetries) times, and one call of runFixAndVerifyPipeline
\* generates at most max(0, maxAttempts) fixes.
C4_BoundedRetries ==
  /\ testRuns <= Max(config.maxRetries, 1)
  /\ caller = "fixAndVerify" => fixCalls <= Max(MaxAttempts, 0)

\* C4 witness: the last allowed attempt is in its last allowed test execution.
C4_Witness ==
  /\ caller = "fixAndVerify"
  /\ config.maxRetries >= 2
  /\ fixCalls = config.maxRetries
  /\ testRuns = config.maxRetries
  /\ pc = "executePlaywright"

\* C5 (unconditional teardown): outside runTests (it has returned or thrown,
\* or was not called yet) no dev-server process spawned by it is alive.
C5_ServerKilledOnExit ==
  pc \notin {"waitForServer", "executePlaywright"} => liveServers = 0

\* C6 (apply/rollback round trip): after rollbackFix(applyFix(fix)), each file
\* named in the fix is as it was before applyFix: same content, or absent again.
C6_RoundTrip ==
  ev = "applied, rolled back" =>
    \A p \in NamedPaths(fix[1]) : fs[p] = fs0[p]

\* C7 (rollback idempotence): a second rollbackFix(B) right after a first one
\* leaves the file system as the first one left it.
C7_RollbackIdempotent ==
  [][pc = "rollbackFix again" => fs' = fs]_vars

\* C7 witness: rollbackFix ran twice with a backup of two entries for one
\* path, and changed the workspace.
C7_Witness ==
  /\ ev = "rolled back twice"
  /\ fs # fs0
  /\ Len(backup) = 2
  /\ backup[1].filePath = backup[2].filePath
  /\ backup[1].originalContent # backup[2].originalContent

\* C8 (partial-apply recovery): when applyFix throws after writing some
\* changes, the files it wrote are back to their prior content once the
\* orchestrator has handled the error (before the next generateFix call).
C8_PartialApplyRolledBack ==
  [][ev' = "applyFix threw" => fs' = fs]_vars

\* C9 (backup completeness): in the FixBackup applyFix returns, every path of
\* the fix has exactly one entry, holding the content the path had before
\* applyFix wrote to it ("" for a path that did not exist).
C9_BackupComplete ==
  (caller = "applyRollback" /\ ev = "applied") =>
    \A p \in NamedPaths(fix[1]) :
      LET idx == { i \in 1..Len(backup) : backup[i].filePath = p }
      IN  /\ Cardinality(idx) = 1
          /\ \A i \in idx :
               backup[i].originalContent = (IF fs0[p] = Absent THEN "" ELSE fs0[p])

\* runVerificationPipeline throws in this step, into runFixAndVerifyPipeline.
VerificationThrew ==
  caller = "fixAndVerify" /\ ev' \in {"generateTest threw", "server timeout"}

ThrownMessage == IF ev' = "generateTest threw" THEN TestGenErrorMsg ELSE ServerTimeoutMsg

\* What C10 says the orchestrator does with the error: rollbackFix of the
\* applied fix, the attempt recorded with verification = null and the error
\* text, the fix and the error as prior-attempt context, and the loop goes on.
ErrorHandled ==
  /\ fs' = RollbackFix(fs, backup)
  /\ attempts' = Append(attempts,
                        [attemptNumber |-> attempt, fix |-> fix[1],
                         verification |-> None,
                         error |-> <<"Verification error", ThrownMessage>>])
  /\ previousAttempt' = Some([fix |-> fix[1], verificationError |-> <<ThrownMessage>>])
  /\ attempt' = attempt + 1
  /\ pc' = IF attempt + 1 <= MaxAttempts THEN "generateFix" ELSE "returned"

\* C10 as stated (infrastructure error during verification): whenever
\* runVerificationPipeline throws, the orchestrator rolls back, records the
\* attempt, sets the prior-attempt context and goes on with the loop.
C10_ErrorAlwaysHandled ==
  [][VerificationThrew => ErrorHandled]_vars

\* C10 as amended: the same, unless rollbackFix itself throws, in which case
\* the error leaves runFixAndVerifyPipeline with no attempt recorded.
C10_ErrorHandledUnlessRollbackThrows ==
  [][VerificationThrew =>
       \/ ErrorHandled
       \/ /\ pc' = "threw"
          /\ \E k \in 1..Len(backup) : fs' = RollbackPrefix(fs, backup, k - 1)
          /\ UNCHANGED <<attempts, previousAttempt, attempt, result>>]_vars

\* C10 witness: the dev server never became ready in attempt 1 of a fix that
\* wrote a file; the attempt is recorded and attempt 2 has begun.
C10_Witness ==
  /\ ev = "server timeout"
  /\ pc = "generateFix"
  /\ attempt = 2
  /\ attempts[1].verification = None
  /\ attempts[1].fix.changes # <<>>
  /\ previousAttempt # None
  /\ fs = fs0

\* The record pushed last onto attempts in this step.
Pushed == attempts'[Len(attempts')]

\* C11 (generation error leaves the workspace untouched): in the step in
\* which generateFix throws, exactly one attempt is recorded, with this
\* attempt's number, verification = null and the error; no workspace file
\* changes; and the loop goes on: the next attempt if one is left, else the
\* failure return.
C11_GenerationErrorNoWrite ==
  [][ev' = "generateFix threw" =>
       /\ fs' = fs
       /\ Len(attempts') = Len(attempts) + 1
       /\ SubSeq(attempts', 1, Len(attempts)) = attempts
       /\ Pushed.attemptNumber = attempt
       /\ Pushed.verification = None
       /\ Pushed.error = <<GenerationErrorMsg>>
       /\ attempt' = attempt + 1
       /\ pc' = IF attempt + 1 <= MaxAttempts THEN "generateFix" ELSE "returned"]_vars

\* C11 witness: generateFix threw in attempt 2, after an attempt that wrote
\* files and was verified; attempt 3 is not allowed.
C11_Witness ==
  /\ ev = "generateFix threw"
  /\ Len(attempts) = 2
  /\ attempts[1].verification # None
  /\ attempts[1].fix.changes # <<>>
  /\ attempts[2].verification = None
  /\ PipelineReturned

\* The failure text of a recorded attempt: the text built from its failed
\* verification, or the message of the error it ended with.
FailureText(a) ==
  IF a.verification # None THEN VerificationErrorText(a.verification[1])
  ELSE <<a.error[Len(a.error)]>>

\* C12 (failure fed forward): whenever generateFix is being called for an
\* attempt with number greater than 1, its previousAttempt argument holds the
\* fix and the failure text of the attempt recorded just before.
C12_FailureFedForward ==
  (caller = "fixAndVerify" /\ pc = "generateFix" /\ attempt > 1) =>
    previousAttempt = Some([fix |-> attempts[attempt - 1].fix,
                            verificationError |-> FailureText(attempts[attempt - 1])])

\* An attempt ends in this step without success: the loop counter moves on.
AttemptEndsUnsuccessfully ==
  caller = "fixAndVerify" /\ attempt >= 1 /\ attempt' = attempt + 1

\* C13 (rollback before moving on): when an attempt ends without success,
\* the next generateFix call or the failure return finds its writes rolled
\* back.  If applyFix had returned, rollbackFix has run on its backup; if the
\* attempt ends in the step in which applyFix ran (it threw), the files it
\* wrote hold their prior content again.
C13_RollbackBeforeMovingOn ==
  [][AttemptEndsUnsuccessfully =>
       IF pc = "generateFix" THEN fs' = fs ELSE fs' = RollbackFix(fs, backup)]_vars

\* C14 (rollback failure is fatal): when rollbackFix throws, the error leaves
\* runFixAndVerifyPipeline (no result is returned), and afterwards nothing
\* happens any more: no fix is generated or applied, no file written.
C14_RollbackFailureFatal ==
  [][/\ rollbackThrew' => (pc' = "threw" /\ result' = None /\ fixCalls' = fixCalls)
     /\ rollbackThrew => UNCHANGED vars]_vars

\* C14 witness: rollbackFix threw at its second entry in attempt 1 of 2, with
\* the first entry restored and the second file still modified.
C14_Witness ==
  /\ rollbackThrew
  /\ pc = "threw"
  /\ attempt = 1
  /\ config.maxRetries = 2
  /\ Len(backup) = 2
  /\ fs["p1"] = fs0["p1"]
  /\ fs["p2"] # fs0["p2"]

\* Every VerificationResult a caller of runVerificationPipeline has received.
VerificationResultsSeen ==
  (IF caller = "verifyFix" /\ result # None THEN {result[1]} ELSE {})
  \cup { attempts[i].verification[1] :
           i \in { j \in 1..Len(attempts) : attempts[j].verification # None } }

\* C15 (the verdict is the test verdict): in every VerificationResult,
\* overallPassed equals testResult.passed, with a passing, a failing or no
\* visual report.
C15_VerdictIsTestVerdict ==
  \A v \in VerificationResultsSeen : v.overallPassed = v.testResult.passed

\* C15 witness: the test passed, the visual report exists and did not pass.
C15_Witness ==
  /\ caller = "verifyFix"
  /\ result # None
  /\ result[1].testResult.passed
  /\ result[1].visualReport # None
  /\ ~result[1].visualReport[1].passed

\* The TestResult the self-healing loop ends with in this step.
LoopResult == IF pc' = "analyzeScreenshots" THEN testResult'[1] ELSE result'[1].testResult

\* C16 (visual assessment is advisory and contained): after a passing test,
\* with visual analysis enabled and screenshots present, analyzeScreenshots
\* is called; and when analyzeScreenshots throws, runVerificationPipeline
\* returns a result with visualReport undefined and the testResult,
\* retryCount and verdict it had before the call.
C16_VisualContained ==
  [][caller = "verifyFix" =>
       /\ (ev' = "test passed" /\ pc = "executePlaywright") =>
            (pc' \in {"analyzeScreenshots", "returned"}
             /\ ((config.enableVisualAnalysis /\ LoopResult.screenshots > 0)
                    => pc' = "analyzeScreenshots"))
       /\ (ev' = "analyzeScreenshots threw" /\ pc = "analyzeScreenshots") =>
            /\ pc' = "returned"
            /\ result' = Some([testGeneration |-> testGen,
                               testResult |-> testResult[1],
                               visualReport |-> None,
                               retryCount |-> retryCount,
                               overallPassed |-> testResult[1].passed])]_vars

\* C16 witness: analyzeScreenshots threw after a healed test passed.
C16_Witness ==
  /\ caller = "verifyFix"
  /\ ev = "analyzeScreenshots threw"
  /\ result # None
  /\ result[1].overallPassed
  /\ result[1].retryCount = 1
  /\ result[1].visualReport = None

\* A test execution ends with a failure in this step.
TestFailed ==
  pc = "executePlaywright" /\ ev' \in {"test failed, exhausted", "test failed, healing"}

\* C17 as stated (healing transition): whenever a test execution fails while
\* retryCount, read at the moment of the failure, is less than maxRetries,
\* retryCount goes up by one and the test is regenerated.
C17_HealsWhileBelowMax ==
  [][(TestFailed /\ retryCount < config.maxRetries) =>
       (pc' = "regenerateTest" /\ retryCount' = retryCount + 1)]_vars

\* C17 as amended: a failed execution increments retryCount, and the test is
\* regenerated exactly when the incremented count is still below maxRetries;
\* regenerateTest gets the error output of the failure (errorMessage, else
\* stderr); when it returns, the regenerated test is run with retryCount as
\* it is; when it throws, the loop ends.
C17_HealingTransition ==
  [][/\ TestFailed =>
          IF retryCount + 1 < config.maxRetries
          THEN pc' = "regenerateTest" /\ retryCount' = retryCount + 1
               /\ testResult' # None /\ ~testResult'[1].passed
          ELSE pc' # "regenerateTest"
     /\ (pc = "regenerateTest" /\ ev' = "test regenerated") =>
          /\ testGen'[1].errorContext = Some(ErrorOutput(testResult[1]))
          /\ testGen'[1].version = testGen[1].version + 1
          /\ pc' \in {"waitForServer", "executePlaywright"}
          /\ retryCount' = retryCount
     /\ (pc = "regenerateTest" /\ ev' = "regenerateTest threw") =>
          pc' \in {"analyzeScreenshots", "returned"}]_vars

\* C17 witness: a test that failed with nothing but stderr was regenerated
\* from that text and the regenerated test is running.
C17_Witness ==
  /\ pc = "executePlaywright"
  /\ retryCount = 1
  /\ testGen[1].version = 2
  /\ testGen[1].errorContext = Some("timeout")
  /\ testRuns = 2

\* The self-healing loop ends in this step through a break after a failure:
\* the retries are exhausted, or regenerateTest threw.
LoopEndsFailing ==
  \/ pc = "executePlaywright" /\ ev' = "test failed, exhausted"
  \/ pc = "regenerateTest" /\ ev' = "regenerateTest threw"

\* The loop is left in this step with no passing execution in any way: by a
\* break after a failure, or by the error of runTests (dev server not ready).
LoopEndsWithoutPass ==
  LoopEndsFailing \/ (pc = "waitForServer" /\ ev' = "server timeout")

\* C18 as stated (exhausted outcome): whenever the self-healing loop ends
\* without a passing execution, runVerificationPipeline does not throw: it
\* goes on to return a result with overallPassed = false.
C18_NeverThrowsWithoutPass ==
  [][(caller = "verifyFix" /\ LoopEndsWithoutPass) =>
       /\ pc' \in {"analyzeScreenshots", "returned"}
       /\ pc' = "returned" => (result' # None /\ ~result'[1].overallPassed)]_vars

\* C18 as amended: when the self-healing loop ends through a break after a
\* failed execution (retries exhausted, or regenerateTest threw),
\* runVerificationPipeline goes on to return, at once or after the visual
\* analysis, a result with overallPassed = false whose testResult is that of
\* the last execution performed; it does not throw.
C18_ExhaustedOutcome ==
  [][caller = "verifyFix" =>
       /\ LoopEndsFailing =>
            /\ pc' \in {"analyzeScreenshots", "returned"}
            /\ pc' = "returned" => (result' # None /\ ~result'[1].overallPassed)
            /\ ~LoopResult.passed
            /\ LoopResult.run = testRuns
       /\ (pc = "analyzeScreenshots" /\ ~testResult[1].passed) =>
            /\ pc' = "returned"
            /\ result' # None
            /\ ~result'[1].overallPassed
            /\ result'[1].testResult = testResult[1]]_vars

\* C18 witness: regenerateTest threw after a failure with screenshots, and
\* the result was returned after the visual analysis.
C18_Witness ==
  /\ caller = "verifyFix"
  /\ ev = "screenshots analyzed"
  /\ result # None
  /\ ~result[1].overallPassed
  /\ result[1].retryCount = 1
  /\ config.maxRetries = 2
  /\ result[1].testResult.run = 1

\* C19 (sub-retries do not count as attempts): a verification that passed
\* after r regenerations of the test (test version r + 1, execution r + 1)
\* has retryCount = r, and it is recorded as one FixAttempt: the attempt's
\* number is its position and one fix was generated per attempt.
C19_SubRetriesNotAttempts ==
  caller = "fixAndVerify" =>
    \A i \in 1..Len(attempts) :
      AttemptPassed(attempts[i]) =>
        LET v == attempts[i].verification[1]
        IN  /\ v.retryCount = v.testGeneration[1].version - 1
            /\ v.retryCount = v.testResult.run - 1
            /\ attempts[i].attemptNumber = i
            /\ fixCalls = i

\* C19 witness (scenario B): attempt 1's test failed with "element not found",
\* was regenerated once and passed.
C19_Witness ==
  /\ PipelineReturned
  /\ result[1].succeeded
  /\ Len(attempts) = 1
  /\ attempts[1].verification[1].retryCount = 1
  /\ attempts[1].verification[1].overallPassed
  /\ attempts[1].verification[1].testGeneration[1].errorContext = Some("element not found")

\* C20 (result shape): in every FixAndVerifyResult, finalFix is non-null
\* exactly when succeeded, finalVerification is non-null exactly when
\* succeeded, and on success they are the fix and the verification of the
\* last recorded attempt.
C20_ResultShape ==
  PipelineReturned =>
    LET r == result[1]
    IN  /\ (r.finalFix # None) <=> r.succeeded
        /\ (r.finalVerification # None) <=> r.succeeded
        /\ r.succeeded =>
             /\ attempts # <<>>
             /\ r.finalFix = Some(attempts[Len(attempts)].fix)
             /\ r.finalVerification = attempts[Len(attempts)].verification

\* C20 witness: success at attempt 2 after an attempt that ended in an error.
C20_Witness ==
  /\ PipelineReturned
  /\ result[1].succeeded
  /\ Len(attempts) = 2
  /\ attempts[1].verification = None
  /\ result[1].finalVerification # None

IterationsDone ==
  IF pc = "threw" \/ (pc = "returned" /\ result # None /\ result[1].succeeded)
  THEN attempt ELSE Max(attempt - 1, 0)

ErrorPhases == {"Apply failed", "Verification error", "Fix generation error"}

\* C22 as stated (attempt records are complete): every recorded attempt has
\* a verification and no error, or no verification and an error text made
\* of a phase and a message; and every loop iteration gone through is in
\* the history.
C22_RecordsComplete ==
  caller = "fixAndVerify" =>
    /\ \A i \in 1..Len(attempts) :
          \/ attempts[i].verification # None /\ attempts[i].error = None
          \/ /\ attempts[i].verification = None
             /\ Len(attempts[i].error) = 2
             /\ attempts[i].error[1] \in ErrorPhases
    /\ Len(attempts) = IterationsDone

\* C22 as amended: every recorded attempt has a verification and no error,
\* or no verification and an error text; the text names the phase for an
\* apply and a verification error, and is the bare message for a generation
\* error, which the placeholder fix (approach "Failed") marks; every loop
\* iteration gone through is in the history, except the one in which
\* rollbackFix threw while a verification error was being handled.
C22_RecordsCompleteByFixOrText ==
  caller = "fixAndVerify" =>
    /\ \A i \in 1..Len(attempts) :
          /\ attempts[i].attemptNumber = i
          /\ \/ attempts[i].verification # None /\ attempts[i].error = None
             \/ /\ attempts[i].verification = None
                /\ attempts[i].error # None
                /\ \/ attempts[i].error[1] \in {"Apply failed", "Verification error"}
                   \/ /\ attempts[i].error = <<GenerationErrorMsg>>
                      /\ attempts[i].fix.approach = "Failed"
    /\ \/ Len(attempts) = IterationsDone
       \/ pc = "threw" /\ rollbackThrew /\ Len(attempts) = attempt - 1

\* C22 witness: a generation error followed by a verification error, both
\* in the history of a failed pipeline.
C22_Witness ==
  /\ PipelineReturned
  /\ Len(attempts) = 2
  /\ attempts[1].fix.approach = "Failed"
  /\ attempts[2].verification = None
  /\ attempts[2].error[1] = "Verification error"

\* runTests has ended, by returning a TestResult or by throwing.
RunTestsEnded == caller = "runTests" /\ pc \in {"returned", "threw"}

\* C23 as stated (server readiness gates the test run): with startServer
\* set, the test-runner process is started only after a poll got a response
\* with a status below 500, received within the timeout; when no such
\* response arrived within the timeout, runTests has thrown, started no
\* test-runner process and produced no TestResult.
C23_ReadinessGatesWithinTimeout ==
  (caller = "runTests" /\ args.startServer) =>
    /\ frame.playwrightStarted =>
         /\ frame.ready # None
         /\ frame.ready[1].status \in 1..499
         /\ frame.ready[1].at <= WaitTimeoutMs
    /\ (RunTestsEnded /\ (frame.ready = None \/ frame.ready[1].at > WaitTimeoutMs)) =>
         /\ pc = "threw"
         /\ ~frame.playwrightStarted
         /\ ret = Some(ServerTimeoutMsg)

\* C23 as amended: with startServer set, the test-runner process is started
\* only after a poll got a response with a status below 500; the timeout is
\* tested before each poll is sent, so the poll answered was sent before the
\* timeout elapsed and its response came at most one request timeout later;
\* when no poll got such a response, runTests has thrown, started no
\* test-runner process and produced no TestResult.
C23_ReadinessGates ==
  (caller = "runTests" /\ args.startServer) =>
    /\ frame.playwrightStarted =>
         /\ frame.ready # None
         /\ frame.ready[1].status \in 1..499
         /\ frame.ready[1].pollStart < WaitTimeoutMs
         /\ frame.ready[1].at <= frame.ready[1].pollStart + RequestTimeoutMs
    /\ (RunTestsEnded /\ frame.ready = None) =>
         /\ pc = "threw"
         /\ frame.now >= WaitTimeoutMs
         /\ ~frame.playwrightStarted
         /\ ret = Some(ServerTimeoutMsg)
    /\ pc = "threw" => frame.ready = None

\* C23 witness: no poll was answered with a status below 500 and runTests
\* threw once the timeout had elapsed, with no test-runner process started.
C23_Witness ==
  /\ caller = "runTests"
  /\ args.startServer
  /\ pc = "threw"
  /\ ev = "response"
  /\ frame.now >= WaitTimeoutMs
  /\ ~frame.playwrightStarted

\* The required shape: an object with a changes array whose every entry is
\* an object with a filePath and a modifiedContent (both strings).
HasRequiredShape(parsed) ==
  /\ parsed.t = "object"
  /\ parsed.changes.t = "array"
  /\ \A i \in 1..Len(parsed.changes.v) :
        LET change == parsed.changes.v[i]
        IN  /\ change.t = "object"
            /\ change.filePath.t = "string"
            /\ change.modifiedContent.t = "string"

\* C24 (strict shape check): generateFix returns a FixResult only for a
\* response of the required shape, and throws for any other; every change
\* of a returned FixResult has a filePath and a modifiedContent.
C24_StrictShape ==
  (caller = "parseFixResponse" /\ ret # None) =>
    /\ ~ret[1].threw <=> HasRequiredShape(args)
    /\ ~ret[1].threw =>
         \A i \in 1..Len(ret[1].value[1].changes) :
           /\ ret[1].value[1].changes[i].filePath.t = "string"
           /\ ret[1].value[1].changes[i].modifiedContent.t = "string"

\* C24 witness: a changes array whose second entry has a filePath and no
\* modifiedContent made generateFix throw.
C24_Witness ==
  /\ caller = "parseFixResponse"
  /\ ret # None
  /\ ret[1].threw
  /\ args.t = "object"
  /\ args.changes.t = "array"
  /\ Len(args.changes.v) = 2
  /\ args.changes.v[1] = [t |-> "object", filePath |-> JString("p1"),
                          modifiedContent |-> JString("p1")]
  /\ args.changes.v[2] = [t |-> "object", filePath |-> JString("p1"),
                          modifiedContent |-> JUndefined]

\* analyzeRelevantFiles has returned this list.
SelectReturned == caller = "analyzeRelevantFiles" /\ pc = "returned"
SelectedFiles == ret[1].value[1]

\* C25 (the working set is deduplicated and ordered): the list returned by
\* analyzeRelevantFiles has no two entries with the same absolute path, and
\* every hinted file comes before every service-suggested file.
C25_DedupOrdered ==
  SelectReturned =>
    /\ \A i, j \in 1..Len(SelectedFiles) :
          SelectedFiles[i].absolutePath = SelectedFiles[j].absolutePath => i = j
    /\ \A i, j \in 1..Len(SelectedFiles) :
          (SelectedFiles[i].reason = "User-specified file"
             /\ SelectedFiles[j].reason = "service") => i < j

\* The response is malformed: no JSON array, invalid JSON, or an array with
\* an entry that is no object with a path.
Malformed(response) ==
  \/ response.t # "array"
  \/ \E i \in 1..Len(response.v) : SuggestedThrows(response.v[i])

\* C26 (selector fallback): when the service response is malformed,
\* analyzeRelevantFiles does not throw and returns exactly the existing
\* hinted files.
C26_FallbackToHints ==
  (SelectReturned /\ Malformed(frame.response)) =>
    /\ ~ret[1].threw
    /\ SelectedFiles = HintedFiles(args.hintFiles, Len(args.hintFiles))

CliExited == caller = "cli" /\ pc = "exited"

\* Some execution of the test passed.
CliSomePassed == \E i \in 1..Len(frame.outcomes) : frame.outcomes[i]

FailureParts(v) ==
  (IF v.testResult.errorMessage = Undefined THEN <<>> ELSE <<v.testResult.errorMessage>>)
  \o (IF v.testResult.stderr = "" THEN <<>> ELSE <<v.testResult.stderr>>)
  \o (IF v.visualReport = None THEN <<>> ELSE <<v.visualReport[1].overallAssessment>>)

FallbackText == <<"Verification tests failed but no specific error message was captured.">>

\* generateFix is being called right after an attempt whose verification
\* returned and did not pass.
FixCalledAfterFailedVerification ==
  /\ caller = "fixAndVerify"
  /\ pc = "generateFix"
  /\ attempts # <<>>
  /\ attempts[Len(attempts)].verification # None
  /\ ~attempts[Len(attempts)].verification[1].overallPassed

\* C29 (failure context): the fix generation that follows a verification
\* that did not pass receives that attempt's fix and a failure text made of
\* the test error message, the test stderr and the visual assessment, in that
\* order, each only when present, and the fixed fallback text when none is.
C29_FailureContext ==
  FixCalledAfterFailedVerification =>
    LET last == attempts[Len(attempts)]
        parts == FailureParts(last.verification[1])
    IN  /\ previousAttempt # None
        /\ previousAttempt[1].fix = last.fix
        /\ previousAttempt[1].verificationError =
             (IF parts = <<>> THEN FallbackText ELSE parts)

\* A fix generation fed with all three parts, and one fed with the fallback.
C29_Witness ==
  /\ FixCalledAfterFailedVerification
  /\ Len(FailureParts(attempts[Len(attempts)].verification[1])) = 3
  /\ previousAttempt # None
  /\ Len(previousAttempt[1].verificationError) = 3

C29_WitnessFallback ==
  /\ FixCalledAfterFailedVerification
  /\ FailureParts(attempts[Len(attempts)].verification[1]) = <<>>
  /\ previousAttempt # None
  /\ previousAttempt[1].verificationError = FallbackText

\* executePlaywright resolved after a close that was not a clean exit.
ExecFailed ==
  caller = "executePlaywright" /\ pc = "returned" /\ args # Some(Some(0))

\* The reporter output parsed and names failed specs.
NamesFailedSpecs(stdout) ==
  /\ stdout.json # None
  /\ stdout.json[1].t = "object"
  /\ stdout.json[1].suites.t = "array"
  /\ \E i \in 1..Len(stdout.json[1].suites.v) :
       LET specs == stdout.json[1].suites.v[i].specs
       IN  specs # None /\ \E j \in 1..Len(specs[1]) : ~specs[1][j].ok

\* C30 (error message of a failing run): a run whose process did not exit
\* with 0 has passed = false; its errorMessage is the structured message when
\* the reporter output parses and names failed specs, and otherwise stderr,
\* or stdout when stderr is empty; it is not undefined while output exists.
C30_ErrorMessage ==
  ExecFailed =>
    LET r == ret[1]
    IN  /\ ~r.passed
        /\ IF NamesFailedSpecs(r.stdout)
           THEN r.errorMessage # None /\ r.errorMessage[1] # <<>>
           ELSE r.errorMessage =
                  Some(<<IF r.stderr # "" THEN r.stderr ELSE r.stdout.raw>>)
        /\ (r.stderr # "" \/ r.stdout.raw # "") => r.errorMessage # None

\* The files a list names, and whether it names one twice.
Listed(list) == {list[i] : i \in 1..Len(list)}
NoRepeats(list) == \A i, j \in 1..Len(list) : list[i] = list[j] => i = j

\* The files under the output directory whose name has one of these endings.
FilesEnding(endings) ==
  IF frame.exists THEN {f \in frame.files : f.name.suffix \in endings} ELSE {}

\* C31 (artifacts survive failure): when runTests returned, after a pass or
\* a failure, videos, screenshots and traces name exactly the files under the
\* output directory ending in .webm/.mp4, .png/.jpg/.jpeg and .zip, each once.
C31_ArtifactsCollected ==
  (caller = "collectFiles" /\ pc = "returned") =>
    LET r == ret[1]
    IN  /\ Listed(r.videos) = FilesEnding({".webm", ".mp4"})
        /\ Listed(r.screenshots) = FilesEnding({".png", ".jpg", ".jpeg"})
        /\ Listed(r.traces) = FilesEnding({".zip"})
        /\ NoRepeats(r.videos) /\ NoRepeats(r.screenshots) /\ NoRepeats(r.traces)

\* C31 witness: a failed run returned a video from a subdirectory and a
\* screenshot, with a file of no recognised ending left out.
C31_Witness ==
  /\ caller = "collectFiles"
  /\ pc = "returned"
  /\ ~ret[1].passed
  /\ \E i \in 1..Len(ret[1].videos) : ret[1].videos[i].dir # <<>>
  /\ ret[1].screenshots # <<>>
  /\ \E f \in frame.files : f.name.suffix = ".txt"

\* The self-healing loop is left in this step right after a failed execution,
\* with no regeneration asked for: every execution so far failed and every
\* regeneration returned.
EndsAfterFailedExecution == TestFailed /\ pc' # "regenerateTest"

\* retryCount after this step: in the result when the call returns.
LoopRetryCount ==
  IF pc' = "returned" THEN result'[1].retryCount ELSE retryCount'

\* C32 (exact counts under persistent failure): with maxRetries = N >= 1,
\* when the loop ends after executions that all failed and regenerations that
\* all returned, the test was executed N times and regenerated N - 1 times,
\* and the result carries retryCount = N; a failed execution before the N-th
\* is followed by a regeneration.
C32_ExactCounts ==
  [][(caller = "verifyFix" /\ config.maxRetries >= 1) =>
       /\ EndsAfterFailedExecution =>
            /\ testRuns = config.maxRetries
            /\ testGen[1].version - 1 = config.maxRetries - 1
            /\ pc' \in {"analyzeScreenshots", "returned"}
            /\ LoopRetryCount = config.maxRetries
       /\ (TestFailed /\ testRuns < config.maxRetries) => pc' = "regenerateTest"
       /\ (pc = "analyzeScreenshots" /\ pc' = "returned") =>
            result'[1].retryCount = retryCount]_vars

\* C32 witness: with maxRetries = 2 the pipeline returned after two failed
\* executions and one regeneration.
C32_Witness ==
  /\ caller = "verifyFix"
  /\ config.maxRetries = 2
  /\ pc = "returned"
  /\ result # None
  /\ ~result[1].testResult.passed
  /\ result[1].testResult.run = 2
  /\ result[1].testGeneration[1].version = 2
  /\ result[1].retryCount = 2

\* The executions that failed during the call a result comes from: each of
\* its executions but a last one that passed.
FailedExecutions(v) == v.testResult.run - (IF v.testResult.passed THEN 1 ELSE 0)

\* C33 (retryCount meaning): retryCount starts a call at 0, goes up by one
\* with every failed execution and only then; the VerificationResult returned
\* carries it, equal to the number of failed executions of the call, and for
\* maxRetries >= 1 not above maxRetries.
C33_RetryCountMeaning ==
  [][caller = "verifyFix" =>
       /\ (pc = "generateTest" /\ pc' \in {"waitForServer", "executePlaywright"}) =>
            retryCount' = 0
       /\ TestFailed => LoopRetryCount = retryCount + 1
       /\ (pc = "executePlaywright" /\ ev' = "test passed") => LoopRetryCount = retryCount
       /\ (pc \in {"waitForServer", "regenerateTest", "analyzeScreenshots"}
             /\ pc' \notin {"returned", "threw"}) => retryCount' = retryCount
       /\ (pc \in {"regenerateTest", "analyzeScreenshots"} /\ pc' = "returned") =>
            result'[1].retryCount = retryCount
       /\ (pc' = "returned" /\ result' # None) =>
            /\ result'[1].retryCount = FailedExecutions(result'[1])
            /\ config.maxRetries >= 1 => result'[1].retryCount <= config.maxRetries]_vars

\* C33 witness: a result after one failed execution and a passing one.
C33_Witness ==
  /\ caller = "verifyFix"
  /\ pc = "returned"
  /\ result # None
  /\ result[1].testResult.passed
  /\ result[1].testResult.run = 2
  /\ result[1].retryCount = 1

\* The attempts list is numbered 1, 2, ... in its order.
NumberedFromOne == \A i \in 1..Len(attempts) : attempts[i].attemptNumber = i

\* C34 as stated (attempt numbering): at every point of a pipeline run the
\* attempts list is numbered consecutively from 1 and is not longer than
\* maxAttempts.
C34_NumberedWithinMax ==
  caller = "fixAndVerify" => (NumberedFromOne /\ Len(attempts) <= MaxAttempts)

\* C34 as amended: the attempts list is numbered consecutively from 1, holds
\* one record for each iteration that has ended, and is not longer than
\* maxAttempts, or empty when maxAttempts is below 1.
C34_Numbered ==
  caller = "fixAndVerify" =>
    /\ NumberedFromOne
    /\ Len(attempts) <= Max(MaxAttempts, 0)
    /\ (pc \notin {"analyzeRelevantFiles", "returned", "threw"}) =>
         Len(attempts) = attempt - 1

\* C34 witness: maxAttempts records of three kinds, in order.
C34_Witness ==
  /\ PipelineReturned
  /\ Len(attempts) = MaxAttempts
  /\ Len(attempts) >= 2
  /\ attempts[1].verification # None
  /\ attempts[2].verification = None
  /\ attempts[2].attemptNumber = 2

\* applyFix and then rollbackFix of the backup it returned have run.
RoundTripDone == caller = "applyRollback" /\ ev = "applied, rolled back"

\* C35 (empty file round trip): a file that existed with empty content before
\* applyFix and that the fix changes exists with empty content after
\* rollbackFix of the returned backup.
C35_EmptyFileKept ==
  RoundTripDone =>
    \A p \in NamedPaths(fix[1]) : fs0[p] = "" => fs[p] = ""

\* The number of changes of a fix that name this path.
TimesNamed(f, p) == Cardinality({i \in 1..Len(f.changes) : f.changes[i].filePath = p})

\* C36 (duplicate path round trip): a file with content that a fix names in
\* two changes has, after applyFix and rollbackFix of the returned backup,
\* the content it had before applyFix.
C36_DuplicatePathRestored ==
  RoundTripDone =>
    \A p \in NamedPaths(fix[1]) :
      (TimesNamed(fix[1], p) >= 2 /\ fs0[p] \notin {"", Absent}) => fs[p] = fs0[p]

\* C37 (result consistency): in every VerificationResult returned,
\* testGeneration is the test whose execution gave testResult: after a pass,
\* after the retries are exhausted and after a regeneration that failed.
C37_ResultConsistent ==
  (caller = "verifyFix" /\ pc = "returned" /\ result # None) =>
    /\ result[1].testGeneration # None
    /\ result[1].testGeneration[1].version = result[1].testResult.testVersion

\* C37 witness: the result after the first test failed and its regeneration
\* threw.
C37_Witness ==
  /\ caller = "verifyFix"
  /\ pc = "returned"
  /\ result # None
  /\ ev = "regenerateTest threw"
  /\ result[1].testGeneration[1].version = 1
  /\ result[1].testResult.run = 1
  /\ result[1].retryCount = 1

\* regenerateTest throws in this step.
RegenerationThrew == pc = "regenerateTest" /\ ev' = "regenerateTest threw"

\* The orchestrator records, in this step, an attempt with a verification
\* that did not pass and holds this testResult, and with no error.
RecordedAsFailedVerification(tr) ==
  /\ Len(attempts') = Len(attempts) + 1
  /\ LET a == attempts'[Len(attempts')]
     IN  /\ a.error = None
         /\ a.verification # None
         /\ ~a.verification[1].overallPassed
         /\ a.verification[1].testResult = tr

\* C38 (regeneration failure ends healing quietly): when regenerateTest
\* throws, no further test execution is started; runVerificationPipeline goes
\* on to the visual analysis or returns, and what it returns, at once or
\* after the visual analysis, has overallPassed = false and the testResult of
\* the failed execution; the orchestrator records it as an attempt with a
\* verification and no error.
C38_QuietEnd ==
  [][caller = "fixAndVerify" =>
       /\ RegenerationThrew =>
            /\ pc' \notin {"executePlaywright", "waitForServer"}
            /\ testRuns' <= testRuns
            /\ IF pc' = "analyzeScreenshots"
               THEN testResult' = testResult /\ attempts' = attempts
               ELSE RecordedAsFailedVerification(testResult[1])
       /\ (pc = "analyzeScreenshots" /\ ~testResult[1].passed) =>
            RecordedAsFailedVerification(testResult[1])]_vars

\* C38 witness: the orchestrator has recorded, as a failed verification with
\* a visual report, a call in which the regeneration of the test threw.
C38_Witness ==
  /\ caller = "fixAndVerify"
  /\ ev = "screenshots analyzed"
  /\ attempts # <<>>
  /\ attempts[Len(attempts)].verification # None
  /\ ~attempts[Len(attempts)].verification[1].overallPassed
  /\ attempts[Len(attempts)].verification[1].retryCount = 1
  /\ config.maxRetries = 2
  /\ attempts[Len(attempts)].error = None

\* C39 (one server at a time): over a pipeline run with startServer set, at
\* most one dev-server process spawned by the pipeline is alive at any moment.
C39_OneServerAtATime ==
  (caller = "fixAndVerify" /\ input.startServer) => liveServers <= 1

====
